---------------------------- MODULE Spec2Model ----------------------------
(***************************************************************************)
(* Hedge Engine: the audit ledger (src/src/audit.py), its caller in the    *)
(* CLI (src/src/src/cli.py) and the sandbox execution simulator            *)
(* (src/src/execution_stub.py).                                            *)
(*                                                                         *)
(* Python values are tagged tuples, the tag first:                         *)
(*   <<"None">>  <<"bool", b>>  <<"int", n>>  <<"float", n>>  <<"str", s>> *)
(*   <<"hex", bytes>>  <<"dict", f>>  <<"list", seq>>  <<"price", n>>      *)
(* A float is held in fixed point, in units of 1e-9; a float that is a     *)
(* price or a notional is <<"price", n>>, in units of 1e-4.  <<"hex", bytes>> is  *)
(* the str that hashlib.sha256(bytes).hexdigest() returns: SHA-256 is      *)
(* taken to be injective, so the digest is named by the bytes it digests.  *)
(* A decision record (a Python dict) is a function from keys to values.    *)
(***************************************************************************)
EXTENDS Integers, Sequences, FiniteSets, TLC

VARIABLES
    rec,      \* the caller's decision record (the dict its variable is bound to)
    pre,      \* the argument object as it was when the last call started
    arg,      \* the argument object as the last call left it
    out,      \* the value the last call returned (PyNone when it raised)
    exc,      \* the exception the last call propagated, "none" when it returned
    op,       \* the last call
    how,      \* the inputs of the last call other than the record
    files,    \* the file system: path -> JSON text, or NoFile
    saved,    \* path -> the record handed to the last save_decision_record at it
    steps,    \* calls made so far
    call,     \* execute_order: its arguments (plan, market_snapshot, mode)
    drawn,    \* execute_order: the values its generator has given so far
    ex,       \* execute_order: its position and its locals
    streams,  \* seed -> the values a generator made from that seed gives
    live,     \* the generator the last call made, as that call left it
    runs,     \* the seeded calls finished so far: function, arguments, result
    quant,    \* ev_calc.py: the last call, its arguments and what it returned
    sim       \* simulate_lef_decay: its arguments, its position and its locals

vars == <<rec, pre, arg, out, exc, op, how, files, saved, steps, call, drawn, ex,
          streams, live, runs, quant, sim>>
auditVars == <<rec, pre, arg, out, exc, op, how, files, saved, steps>>
execVars == <<call, drawn, ex>>
runVars == <<streams, live, runs>>
quantVars == <<quant>>
decayVars == <<sim>>

----------------------------------------------------------------------------
(* Bounds of the model *)

MaxSteps == 3
\* The longest plan execute_order is given
MaxOrders == 2
\* The seeded calls one caller makes
MaxRuns == 2

----------------------------------------------------------------------------
(* Python values *)

PyNone == <<"None">>
PyBool(b) == <<"bool", b>>
PyInt(n) == <<"int", n>>
PyFloat(n) == <<"float", n>>
PyStr(s) == <<"str", s>>
PyDict(f) == <<"dict", f>>
PyList(s) == <<"list", s>>

EmptyDict == [k \in {} |-> PyNone]

IsDict(v) == v[1] = "dict"
IsStr(v) == v[1] \in {"str", "hex"}

\* bool(v): Python truthiness
Truthy(v) ==
    CASE v[1] = "None" -> FALSE
      [] v[1] = "bool" -> v[2]
      [] v[1] \in {"int", "float", "price"} -> v[2] # 0
      [] v[1] = "str" -> v[2] # ""
      [] v[1] = "hex" -> TRUE
      [] v[1] = "dict" -> DOMAIN v[2] # {}
      [] v[1] = "list" -> Len(v[2]) > 0

\* d.get(k): None when the key is absent
Get(d, k) == IF k \in DOMAIN d THEN d[k] ELSE PyNone

\* d.get(k, default)
GetOr(d, k, default) == IF k \in DOMAIN d THEN d[k] ELSE default

\* d[k] = v on a copy of d
DictSet(d, k, v) == [x \in DOMAIN d \cup {k} |-> IF x = k THEN v ELSE d[x]]

\* d.pop(k, None) on a copy of d
DictPop(d, k) == [x \in DOMAIN d \ {k} |-> d[x]]

----------------------------------------------------------------------------
(* json.dumps / json.load.  A JSON text is modelled by its token tree: an  *)
(* object is the sequence of its <<key, value>> members in the order they  *)
(* are written, and both writers of audit.py pass sort_keys=True.          *)

\* Every key of the model, in the order sort_keys=True writes them (code point order)
KeyOrder ==
    << "_validator_error", "actual", "algo", "audit_hash", "audit_ok",
       "avg_fill_price", "decision", "decision_id", "duration_minutes", "ev_gross",
       "ev_net", "execution_plan", "execution_result", "expected", "filled",
       "filled_qty", "fills", "limit", "llm_output", "max_slippage_bps", "metrics",
       "mismatches", "model_version", "notes", "notional_filled_usd", "orders",
       "p_confidence", "percent_of_adv", "post_execution_audit_hash", "price",
       "prompt_hash", "qty", "quant_checks", "requested", "requested_qty",
       "reviewer", "side", "signature", "signature_hash", "signed_at", "signed_by",
       "slice", "slices", "sor_policy", "status", "suggested_instrument", "ticker",
       "timestamp_utc", "total_filled", "total_requested", "type", "validation_ok",
       "viability_pass" >>

SortedKeys(d) == SelectSeq(KeyOrder, LAMBDA k : k \in DOMAIN d)

RECURSIVE JsonEncode(_)
JsonEncode(v) ==
    CASE v[1] = "dict" ->
           LET ks == SortedKeys(v[2])
           IN  <<"object", [i \in 1..Len(ks) |-> <<ks[i], JsonEncode(v[2][ks[i]])>>]>>
      [] v[1] = "list" ->
           <<"array", [i \in 1..Len(v[2]) |-> JsonEncode(v[2][i])]>>
      [] v[1] = "str" -> <<"string", "lit", v[2]>>
      [] v[1] = "hex" -> <<"string", "hex", v[2]>>
      [] v[1] = "int" -> <<"number", "int", v[2]>>
      [] v[1] = "float" -> <<"number", "float", v[2]>>
      [] v[1] = "price" -> <<"number", "price", v[2]>>
      [] v[1] = "bool" -> <<"literal", IF v[2] THEN "true" ELSE "false">>
      [] v[1] = "None" -> <<"literal", "null">>

RECURSIVE JsonDecode(_)
JsonDecode(j) ==
    CASE j[1] = "object" ->
           LET ms == j[2]
               ks == {ms[i][1] : i \in 1..Len(ms)}
               \* a repeated key keeps its last member
               last(k) == CHOOSE i \in 1..Len(ms) :
                              /\ ms[i][1] = k
                              /\ \A n \in 1..Len(ms) : ms[n][1] = k => n <= i
           IN  PyDict([k \in ks |-> JsonDecode(ms[last(k)][2])])
      [] j[1] = "array" ->
           PyList([i \in 1..Len(j[2]) |-> JsonDecode(j[2][i])])
      [] j[1] = "string" -> IF j[2] = "hex" THEN <<"hex", j[3]>> ELSE PyStr(j[3])
      [] j[1] = "number" -> <<j[2], j[3]>>
      [] j[1] = "literal" ->
           IF j[2] = "null" THEN PyNone ELSE PyBool(j[2] = "true")

\* json.dumps(obj, sort_keys=True, separators=(",", ":"), ensure_ascii=False).encode("utf-8")
CanonicalJsonBytes(obj) == <<"utf-8", "compact", JsonEncode(PyDict(obj))>>

\* hashlib.sha256(data).hexdigest()
Sha256Hex(data) == <<"hex", data>>

----------------------------------------------------------------------------
(* audit.py *)

MutComputeAuditHashKeepsAuditHash(decision) ==
    Sha256Hex(CanonicalJsonBytes(DictPop(decision, "signature")))

MutComputeAuditHashKeepsSignature(decision) ==
    Sha256Hex(CanonicalJsonBytes(DictPop(decision, "audit_hash")))

ComputeAuditHash(decision) ==
    Sha256Hex(CanonicalJsonBytes(
        DictPop(DictPop(decision, "audit_hash"), "signature")))

\* The result of a call: what it returned (ret), what it raised (exc) and the
\* argument object as the call left it (arg).
Returned(ret, a) == [ret |-> ret, exc |-> "none", arg |-> a]
Raised(e, a) == [ret |-> PyNone, exc |-> e, arg |-> a]

MutMakeRecordHashesFirst(decision, ensure_ids, uuid, now) ==
    LET r1 == IF ensure_ids /\ ~Truthy(Get(decision, "decision_id"))
              THEN DictSet(decision, "decision_id", PyStr(uuid))
              ELSE decision
        r2 == IF ensure_ids /\ ~Truthy(Get(r1, "timestamp_utc"))
              THEN DictSet(r1, "timestamp_utc", PyStr(now))
              ELSE r1
    IN  DictSet(r2, "audit_hash", ComputeAuditHash(decision))

\* make_decision_record(decision, ensure_ids) with uuid4().hex = uuid and
\* datetime.now(timezone.utc).isoformat() = now
MakeRecord(decision, ensure_ids, uuid, now) ==
    LET r1 == IF ensure_ids /\ ~Truthy(Get(decision, "decision_id"))
              THEN DictSet(decision, "decision_id", PyStr(uuid))
              ELSE decision
        r2 == IF ensure_ids /\ ~Truthy(Get(r1, "timestamp_utc"))
              THEN DictSet(r1, "timestamp_utc", PyStr(now))
              ELSE r1
    IN  DictSet(r2, "audit_hash", ComputeAuditHash(r2))

MutMakeDecisionRecordInPlace(decision, ensure_ids, uuid, now) ==
    Returned(PyDict(MakeRecord(decision, ensure_ids, uuid, now)),
             MakeRecord(decision, ensure_ids, uuid, now))

\* rec = dict(decision) (line 82): the caller's dict is left as it was
MakeDecisionRecord(decision, ensure_ids, uuid, now) ==
    Returned(PyDict(MakeRecord(decision, ensure_ids, uuid, now)), decision)

VerifyAuditHash(decision) ==
    LET stored == Get(decision, "audit_hash")
    IN  IF ~Truthy(stored) THEN FALSE ELSE stored = ComputeAuditHash(decision)


MutSignDecisionInPlace(decision, signer, now) ==
    IF "audit_hash" \notin DOMAIN decision
    THEN Raised("ValueError", decision)
    ELSE LET signed == DictSet(decision, "signature", PyDict(
                 [signed_by |-> PyStr(signer),
                  signature_hash |-> Sha256Hex(<<"utf-8", "concat", decision["audit_hash"], "|", signer>>),
                  signed_at |-> PyStr(now)]))
         IN  Returned(PyDict(signed), signed)

MutSignDecisionUnsealed(decision, signer, now) ==
    LET signed == DictSet(decision, "signature", PyDict(
            [signed_by |-> PyStr(signer),
             signature_hash |-> Sha256Hex(<<"utf-8", "concat", Get(decision, "audit_hash"), "|", signer>>),
             signed_at |-> PyStr(now)]))
    IN  Returned(PyDict(signed), decision)

\* sign_decision(decision, signer) with datetime.now(timezone.utc).isoformat() = now
SignDecision(decision, signer, now) ==
    IF "audit_hash" \notin DOMAIN decision
    THEN Raised("ValueError", decision)
    ELSE IF ~IsStr(decision["audit_hash"])
    THEN Raised("TypeError", decision)    \* decision["audit_hash"] + "|" on a non-str
    ELSE LET payload == <<"utf-8", "concat", decision["audit_hash"], "|", signer>>
             signature == PyDict([signed_by |-> PyStr(signer),
                                  signature_hash |-> Sha256Hex(payload),
                                  signed_at |-> PyStr(now)])
         IN  Returned(PyDict(DictSet(decision, "signature", signature)), decision)

\* The file system
NoFile == <<"absent">>

\* json.dump(decision, fh, indent=2, sort_keys=True, ensure_ascii=False)
JsonDumpFile(decision) == <<"utf-8", "indent2", JsonEncode(PyDict(decision))>>

MutSaveAlwaysReseals(fs, decision, path, uuid, now) ==
    [files |-> [fs EXCEPT ![path] =
                    JsonDumpFile(MakeRecord(decision, TRUE, uuid, now))],
     ret |-> PyNone, exc |-> "none", arg |-> decision]

\* save_decision_record(decision, path): the file system after the call, and the call's result
SaveDecisionRecord(fs, decision, path, uuid, now) ==
    LET d == IF "audit_hash" \notin DOMAIN decision
             THEN MakeRecord(decision, TRUE, uuid, now)
             ELSE decision
    IN  [files |-> [fs EXCEPT ![path] = JsonDumpFile(d)],
         ret |-> PyNone, exc |-> "none", arg |-> decision]

\* load_decision_record(path): json.load does not look at the white space
LoadDecisionRecord(fs, path) ==
    IF fs[path] = NoFile
    THEN Raised("FileNotFoundError", PyNone)
    ELSE Returned(JsonDecode(fs[path][3]), PyNone)


----------------------------------------------------------------------------
(* replay_decision *)

\* Units of the fixed point that holds a float: 1.0 is FloatUnit
FloatUnit == 1000000000
\* 1e-9, the absolute tolerance, in units
AbsTolerance == 1
\* 1e-8, the relative tolerance: |fs| * 1e-8 is |fs| \div RelToleranceInverse
RelToleranceInverse == 100000000

Abs(n) == IF n < 0 THEN -n ELSE n
Max(a, b) == IF a >= b THEN a ELSE b

IsNumber(v) == v[1] \in {"int", "float", "bool"}

\* float(v): the value in units, or the exception float() raises
FloatOf(v) ==
    CASE v[1] = "float" -> [ok |-> TRUE, val |-> v[2]]
      [] v[1] = "int" -> [ok |-> TRUE, val |-> v[2] * FloatUnit]
      [] v[1] = "bool" -> [ok |-> TRUE, val |-> IF v[2] THEN FloatUnit ELSE 0]
      [] v[1] \in {"str", "hex"} -> [ok |-> FALSE, val |-> 0]    \* ValueError: no string of the model is a numeral
      [] v[1] \in {"None", "dict", "list"} -> [ok |-> FALSE, val |-> 0]    \* TypeError

\* a == b in Python: numbers compare by value across int, float and bool
RECURSIVE PyEq(_, _)
PyEq(a, b) ==
    IF IsNumber(a) /\ IsNumber(b) THEN FloatOf(a).val = FloatOf(b).val
    ELSE IF a[1] = "dict" /\ b[1] = "dict"
    THEN /\ DOMAIN a[2] = DOMAIN b[2]
         /\ \A k \in DOMAIN a[2] : PyEq(a[2][k], b[2][k])
    ELSE IF a[1] = "list" /\ b[1] = "list"
    THEN /\ Len(a[2]) = Len(b[2])
         /\ \A i \in 1..Len(a[2]) : PyEq(a[2][i], b[2][i])
    ELSE IF IsStr(a) /\ IsStr(b) THEN a = b
    ELSE a[1] = b[1] /\ a = b

\* not abs(fv - fs) <= max(1e-9, 1e-8 * max(1.0, abs(fs)))
BeyondTolerance(fv, fs) ==
    ~(Abs(fv - fs) <= Max(AbsTolerance, Max(FloatUnit, Abs(fs)) \div RelToleranceInverse))

MutValuesMismatchExact(stored_val, v) == ~PyEq(stored_val, v)

\* The comparison of one recomputed value with the stored one (lines 192-200)
ValuesMismatch(stored_val, v) ==
    IF FloatOf(v).ok /\ FloatOf(stored_val).ok
    THEN BeyondTolerance(FloatOf(v).val, FloatOf(stored_val).val)
    ELSE ~PyEq(stored_val, v)

\* A validator is a callable; the model's validators are
\*   none      no validator is passed
\*   raises    the callable raises
\*   returns   the callable returns `value`, whatever the record
\*   echo      the callable returns decision_record.get("quant_checks", {}).copy()
NoValidator == [kind |-> "none", value |-> PyNone]
RaisingValidator == [kind |-> "raises", value |-> PyNone]
EchoValidator == [kind |-> "echo", value |-> PyNone]
ConstValidator(v) == [kind |-> "returns", value |-> v]

\* deterministic_validator(rec): [raised, value]
CallValidator(validator, r) ==
    CASE validator.kind = "raises" -> [raised |-> TRUE, value |-> PyNone]
      [] validator.kind = "returns" -> [raised |-> FALSE, value |-> validator.value]
      [] validator.kind = "echo" ->
           LET qc == GetOr(r, "quant_checks", PyDict(EmptyDict))
           IN  IF IsDict(qc) THEN [raised |-> FALSE, value |-> qc]
               ELSE [raised |-> TRUE, value |-> PyNone]    \* no .copy() on it

ReplayResult(decision, audit_ok, validation_ok, mismatches) ==
    PyDict([decision |-> decision, audit_ok |-> PyBool(audit_ok),
            validation_ok |-> validation_ok, mismatches |-> PyDict(mismatches)])

ValidatorError == [k \in {"_validator_error"} |-> PyStr("str(e)")]

\* The body of the try block (lines 185-205): [raised, mismatches]
CompareRecomputed(r, validator) ==
    LET called == CallValidator(validator, r)
        recomputed == called.value
        stored_checks == GetOr(r, "quant_checks", PyDict(EmptyDict))
    IN  IF called.raised THEN [raised |-> TRUE, mismatches |-> EmptyDict]
        ELSE IF ~IsDict(recomputed)
        THEN [raised |-> TRUE, mismatches |-> EmptyDict]    \* no .items() on it
        ELSE IF DOMAIN recomputed[2] = {}
        THEN [raised |-> FALSE, mismatches |-> EmptyDict]
        ELSE CASE IsDict(stored_checks) ->
                    LET sc == stored_checks[2]
                        rc == recomputed[2]
                        bad == {k \in DOMAIN rc :
                                   \/ k \notin DOMAIN sc
                                   \/ ValuesMismatch(sc[k], rc[k])}
                    IN  [raised |-> FALSE,
                         mismatches |->
                            [k \in bad |-> PyDict(
                                [expected |-> IF k \in DOMAIN sc THEN sc[k] ELSE PyNone,
                                 actual |-> rc[k]])]]
               [] stored_checks[1] \in {"None", "int", "float", "bool"} ->
                    \* `k in stored_checks` is a TypeError
                    [raised |-> TRUE, mismatches |-> EmptyDict]

\* replay_decision(path, deterministic_validator)
ReplayDecision(fs, path, validator) ==
    LET loaded == LoadDecisionRecord(fs, path)
    IN  IF loaded.exc # "none" THEN Raised(loaded.exc, PyNone)
        ELSE IF ~IsDict(loaded.ret) THEN Raised("AttributeError", PyNone)
        ELSE LET r == loaded.ret[2]
                 audit_ok == VerifyAuditHash(r)
             IN  IF validator.kind = "none"
                 THEN Returned(ReplayResult(loaded.ret, audit_ok, PyNone, EmptyDict), PyNone)
                 ELSE LET cmp == CompareRecomputed(r, validator)
                      IN  IF cmp.raised
                          THEN Returned(ReplayResult(loaded.ret, audit_ok,
                                                     PyBool(FALSE), ValidatorError), PyNone)
                          ELSE Returned(ReplayResult(loaded.ret, audit_ok,
                                                     PyBool(cmp.mismatches = EmptyDict),
                                                     cmp.mismatches), PyNone)


----------------------------------------------------------------------------
(* execution_stub.py.  Quantities are integers.  A market or limit price   *)
(* is a whole number of dollars; a fill price is held in units of 1e-4     *)
(* dollar (PriceUnit to the dollar), exact for the prices and jitters of    *)
(* the model.  An optional value is <<>> (absent, None) or <<v>>.          *)

PriceUnit == 10000
MinutesPerDay == 390
DefaultPrice == 100
DefaultSlippageBps == 5
DefaultDuration == 30
DefaultSlices == 6
DefaultPercent == 5

Absent == << >>
Some(v) == <<v>>
OrElse(opt, default) == IF opt = Absent THEN default ELSE opt[1]

Min(a, b) == IF a <= b THEN a ELSE b

\* str.upper() on the strings of the model
Upper(s) ==
    CASE s = "buy" -> "BUY"
      [] s = "sell" -> "SELL"
      [] s = "market" -> "MARKET"
      [] s = "limit" -> "LIMIT"
      [] s = "alg" -> "ALG"
      [] s = "twap" -> "TWAP"
      [] s = "letf" -> "LETF"
      [] OTHER -> s

\* rng.uniform(-0.25, 0.25), in hundredths: the values the model draws
JitterValues == {-25, 0, 25}

\* _mock_fill_price(market_price, side, slippage_bps, rng) with rng.uniform(-0.25, 0.25) = jitter / 100
MockFillPrice(market_price, side, slippage_bps, jitter) ==
    LET sign == IF Upper(side) = "BUY" THEN 1 ELSE -1
    IN  market_price * PriceUnit
          + sign * ((market_price * slippage_bps * (100 + jitter)) \div 100)

\* _slice_capacity_from_adv(adv_usd, percent_of_adv, slice_minutes, 390, price)
\* with slice_minutes = duration_minutes / slices and percent_of_adv = percent / 100
SliceCapacityFromAdv(adv_usd, percent, duration_minutes, slices, price) ==
    IF adv_usd <= 0 \/ price <= 0
    THEN 0
    ELSE Max(0, (adv_usd * duration_minutes * percent)
                    \div (MinutesPerDay * slices * price * 100))

\* math.ceil(qty / float(slices))
MutCeilDivFloors(a, b) == a \div b

CeilDiv(a, b) == (a + b - 1) \div b

FillRecord(qty, price) ==
    [kind |-> "fill", slice |-> 0, requested |-> qty, filled |-> qty,
     price |-> Some(price), status |-> "filled"]

SliceRecord(i, intended, fill_qty, price, status) ==
    [kind |-> "slice", slice |-> i, requested |-> intended, filled |-> fill_qty,
     price |-> price, status |-> status]

MutTwapSliceNoCap(st, order, market_price, adv_usd, percent, duration_minutes, slices, slippage_bps, tape) ==
    LET intended == CeilDiv(order.qty, slices)
        fill_qty == Min(intended, st.remaining)
        price == MockFillPrice(market_price, order.side, slippage_bps, tape[st.draws + 1])
    IN  [st EXCEPT !.i = st.i + 1,
                   !.fills = Append(st.fills,
                       SliceRecord(st.i + 1, intended, fill_qty, Some(price), "filled")),
                   !.remaining = st.remaining - fill_qty,
                   !.draws = st.draws + 1,
                   !.done = (st.remaining - fill_qty <= 0 \/ st.i + 1 >= slices)]

MutTwapSliceHonoursZeroCap(st, order, market_price, adv_usd, percent, duration_minutes, slices, slippage_bps, tape) ==
    LET slice_capacity == SliceCapacityFromAdv(adv_usd, percent, duration_minutes,
                                               slices, market_price)
        intended == CeilDiv(order.qty, slices)
        fill_qty == Min(Min(intended, slice_capacity), st.remaining)
    IN  IF fill_qty <= 0
        THEN [st EXCEPT !.i = st.i + 1,
                        !.fills = Append(st.fills,
                            SliceRecord(st.i + 1, intended, 0, Absent, "not_filled")),
                        !.done = (st.i + 1 >= slices)]
        ELSE LET price == MockFillPrice(market_price, order.side, slippage_bps,
                                        tape[st.draws + 1])
             IN  [st EXCEPT !.i = st.i + 1,
                            !.fills = Append(st.fills,
                                SliceRecord(st.i + 1, intended, fill_qty, Some(price), "filled")),
                            !.remaining = st.remaining - fill_qty,
                            !.draws = st.draws + 1,
                            !.done = (st.remaining - fill_qty <= 0 \/ st.i + 1 >= slices)]

MutTwapSliceOverfills(st, order, market_price, adv_usd, percent, duration_minutes, slices, slippage_bps, tape) ==
    LET slice_capacity == SliceCapacityFromAdv(adv_usd, percent, duration_minutes,
                                               slices, market_price)
        intended == CeilDiv(order.qty, slices)
        fill_qty == IF slice_capacity > 0 THEN Min(intended, slice_capacity)
                    ELSE intended
        price == MockFillPrice(market_price, order.side, slippage_bps, tape[st.draws + 1])
    IN  [st EXCEPT !.i = st.i + 1,
                   !.fills = Append(st.fills,
                       SliceRecord(st.i + 1, intended, fill_qty, Some(price), "filled")),
                   !.remaining = st.remaining - fill_qty,
                   !.draws = st.draws + 1,
                   !.done = (st.remaining - fill_qty <= 0 \/ st.i + 1 >= slices)]

\* One iteration of the loop of _simulate_twap_fill (lines 87-123) on the loop
\* state [i, remaining, fills, draws, done]; tape[n] is the n-th value the
\* generator gives
TwapSlice(st, order, market_price, adv_usd, percent, duration_minutes, slices, slippage_bps, tape) ==
    LET slice_capacity == SliceCapacityFromAdv(adv_usd, percent, duration_minutes,
                                               slices, market_price)
        intended == CeilDiv(order.qty, slices)
        allowed0 == IF slice_capacity > 0 THEN Min(intended, slice_capacity)
                    ELSE intended
        allowed == IF allowed0 <= 0 /\ st.remaining > 0
                   THEN Min(st.remaining, 1) ELSE allowed0
        fill_qty == Min(allowed, st.remaining)
    IN  IF fill_qty <= 0
        THEN [st EXCEPT !.i = st.i + 1,
                        !.fills = Append(st.fills,
                            SliceRecord(st.i + 1, intended, 0, Absent, "not_filled")),
                        !.done = (st.i + 1 >= slices)]
        ELSE LET price == MockFillPrice(market_price, order.side, slippage_bps,
                                        tape[st.draws + 1])
             IN  [st EXCEPT !.i = st.i + 1,
                            !.fills = Append(st.fills,
                                SliceRecord(st.i + 1, intended, fill_qty, Some(price), "filled")),
                            !.remaining = st.remaining - fill_qty,
                            !.draws = st.draws + 1,
                            !.done = (st.remaining - fill_qty <= 0 \/ st.i + 1 >= slices)]

\* The loop state _simulate_twap_fill starts from (lines 80-86)
TwapStart(order, slices, draws) ==
    [i |-> 0, remaining |-> order.qty, fills |-> << >>, draws |-> draws,
     done |-> (order.qty <= 0 \/ slices <= 0)]


\* The result dict of _execute_order_market and _execute_order_limit; `drew`
\* says whether the call took a value from the generator
LegResult(requested, filled, avg, fills, status, drew) ==
    [requested |-> requested, filled |-> filled, avg_fill_price |-> avg,
     fills |-> fills, status |-> status, drew |-> drew]

\* _execute_order_limit(order, market_price, max_slippage_bps, rng)
MutExecuteOrderLimitStrict(order, market_price, max_slippage_bps, jitter) ==
    LET side == Upper(order.side)
        qty == order.qty
    IN  IF order.limit = Absent \/ qty <= 0
        THEN LegResult(qty, 0, Absent, << >>, "invalid_order", FALSE)
        ELSE LET limit == order.limit[1]
                 is_marketable == IF side = "BUY" THEN limit > market_price
                                  ELSE limit < market_price
             IN  IF ~is_marketable
                 THEN LegResult(qty, 0, Absent, << >>, "no_fill", FALSE)
                 ELSE LET fill_price == MockFillPrice(limit, side, max_slippage_bps, jitter)
                      IN  LegResult(qty, qty, Some(fill_price),
                                    <<FillRecord(qty, fill_price)>>, "filled", TRUE)

\* _execute_order_limit(order, market_price, max_slippage_bps, rng)
ExecuteOrderLimit(order, market_price, max_slippage_bps, jitter) ==
    LET side == Upper(order.side)
        qty == order.qty
    IN  IF order.limit = Absent \/ qty <= 0
        THEN LegResult(qty, 0, Absent, << >>, "invalid_order", FALSE)
        ELSE LET limit == order.limit[1]
                 is_marketable == IF side = "BUY" THEN limit >= market_price
                                  ELSE limit <= market_price
             IN  IF ~is_marketable
                 THEN LegResult(qty, 0, Absent, << >>, "no_fill", FALSE)
                 ELSE LET fill_price == MockFillPrice(limit, side, max_slippage_bps, jitter)
                      IN  LegResult(qty, qty, Some(fill_price),
                                    <<FillRecord(qty, fill_price)>>, "filled", TRUE)

\* _execute_order_market(order, market_price, max_slippage_bps, rng)
ExecuteOrderMarket(order, market_price, max_slippage_bps, jitter) ==
    LET qty == order.qty
    IN  IF qty <= 0
        THEN LegResult(0, 0, Absent, << >>, "invalid_order", FALSE)
        ELSE LET price == MockFillPrice(market_price, order.side, max_slippage_bps, jitter)
             IN  LegResult(qty, qty, Some(price), <<FillRecord(qty, price)>>, "filled", TRUE)

\* _parse_sor_policy(sor_policy): the participation rate, in percent.  A policy is
\*   [form |-> "none"]                        None, "" or {}
\*   [form |-> "string", prefix, percent]     a str; prefix: it starts with
\*                                            "percent_of_adv="; percent: Absent
\*                                            when float() rejects what follows
\*   [form |-> "dict", percent]               a dict; percent: its "percent" (or "p")
ParseSorPolicy(sor_policy) ==
    CASE sor_policy.form = "none" -> DefaultPercent
      [] sor_policy.form = "string" ->
           IF sor_policy.prefix /\ sor_policy.percent # Absent
           THEN sor_policy.percent[1]
           ELSE DefaultPercent
      [] sor_policy.form = "dict" -> OrElse(sor_policy.percent, DefaultPercent)

\* market_snapshot.get(ticker, {}) if market_snapshot else {}
MarketInfo(market_snapshot, ticker) ==
    IF ticker \in DOMAIN market_snapshot THEN market_snapshot[ticker]
    ELSE [price |-> Absent, adv |-> Absent]

\* float(market_info.get("price", order.get("limit", 100.0)))
MarketPrice(market_snapshot, order) ==
    OrElse(MarketInfo(market_snapshot, order.ticker).price,
           OrElse(order.limit, DefaultPrice))

\* float(None) raises TypeError: the snapshot has no price for the ticker and
\* the order carries "limit": None
MarketPriceRaises(market_snapshot, order) ==
    /\ MarketInfo(market_snapshot, order.ticker).price = Absent
    /\ order.limit_null

\* float(market_info.get("adv", 0.0))
AdvUsd(market_snapshot, order) ==
    OrElse(MarketInfo(market_snapshot, order.ticker).adv, 0)

MutIsAlgOrderAlways(order) == TRUE

\* ord_type == "ALG" or order.get("algo", "").upper() == "TWAP"
IsAlgOrder(order) ==
    \/ Upper(OrElse(order.type, "MARKET")) = "ALG"
    \/ Upper(OrElse(order.algo, "")) = "TWAP"

OrderSlices(order) == OrElse(order.slices, DefaultSlices)
OrderDuration(order) == OrElse(order.duration_minutes, DefaultDuration)
OrderPercent(order, plan) == OrElse(order.percent_of_adv, ParseSorPolicy(plan.sor_policy))
PlanSlippageBps(plan) == OrElse(plan.max_slippage_bps, DefaultSlippageBps)

OrderResult(ticker, requested_qty, filled_qty, avg, status, fills) ==
    [ticker |-> ticker, requested_qty |-> requested_qty, filled_qty |-> filled_qty,
     avg_fill_price |-> avg, status |-> status, fills |-> fills]

RECURSIVE SumFilledValue(_)
\* sum(f["filled"] * f["price"] for f in slice_fills if f["filled"] > 0)
SumFilledValue(fills) ==
    IF fills = << >> THEN 0
    ELSE (IF Head(fills).filled > 0 THEN Head(fills).filled * Head(fills).price[1] ELSE 0)
           + SumFilledValue(Tail(fills))

MutTwapOrderResultNeverFilled(order, tw) ==
    LET qty == order.qty
        total_filled == IF qty <= 0 THEN 0 ELSE qty - tw.remaining
        status == IF total_filled > qty THEN "filled"
                  ELSE IF total_filled > 0 THEN "partial" ELSE "no_fill"
        avg == IF total_filled > 0
               THEN Some(SumFilledValue(tw.fills) \div total_filled)
               ELSE Absent
    IN  OrderResult(order.ticker, qty, total_filled, avg, status, tw.fills)

\* The order result execute_order builds from what _simulate_twap_fill returns (lines 283-294)
TwapOrderResult(order, tw) ==
    LET qty == order.qty
        total_filled == IF qty <= 0 THEN 0 ELSE qty - tw.remaining
        status == IF total_filled >= qty THEN "filled"
                  ELSE IF total_filled > 0 THEN "partial" ELSE "no_fill"
        avg == IF total_filled > 0
               THEN Some(SumFilledValue(tw.fills) \div total_filled)
               ELSE Absent
    IN  OrderResult(order.ticker, qty, total_filled, avg, status, tw.fills)

\* The order result execute_order builds from a market or limit leg (lines 296-308)
LegOrderResult(order, res) ==
    OrderResult(order.ticker, order.qty, res.filled, res.avg_fill_price, res.status, res.fills)

\* The leg of a non-ALG order: MARKET, LIMIT, or an unknown type treated as MARKET
ExecuteLeg(order, market_price, max_slippage_bps, jitter) ==
    IF Upper(OrElse(order.type, "MARKET")) = "LIMIT"
    THEN ExecuteOrderLimit(order, market_price, max_slippage_bps, jitter)
    ELSE ExecuteOrderMarket(order, market_price, max_slippage_bps, jitter)

MutAddMetricsOfPricedOrders(metrics, r) ==
    IF r.avg_fill_price = Absent THEN metrics
    ELSE [total_requested |-> metrics.total_requested + r.requested_qty,
          total_filled |-> metrics.total_filled + r.filled_qty,
          notional_filled_usd |->
              metrics.notional_filled_usd + r.filled_qty * r.avg_fill_price[1]]

\* overall_metrics after one more order (lines 268, 310-312)
AddMetrics(metrics, r) ==
    [total_requested |-> metrics.total_requested + r.requested_qty,
     total_filled |-> metrics.total_filled + r.filled_qty,
     notional_filled_usd |->
         metrics.notional_filled_usd
           + (IF r.avg_fill_price # Absent THEN r.filled_qty * r.avg_fill_price[1] ELSE 0)]

ZeroMetrics == [total_requested |-> 0, total_filled |-> 0, notional_filled_usd |-> 0]


\* _simulate_twap_fill run to its end from loop state st
RECURSIVE TwapRun(_, _, _, _, _, _, _, _, _)
TwapRun(st, order, market_price, adv_usd, percent, duration_minutes, slices, slippage_bps, tape) ==
    IF st.done THEN st
    ELSE TwapRun(TwapSlice(st, order, market_price, adv_usd, percent,
                           duration_minutes, slices, slippage_bps, tape),
                 order, market_price, adv_usd, percent, duration_minutes, slices,
                 slippage_bps, tape)

\* The body of the loop over the orders of execute_order (lines 250-314), for
\* one order whose market price float() accepts, with `draws` values already taken from the generator:
\* [result, draws]
ExecuteOneOrder(plan, market_snapshot, order, draws, tape) ==
    LET market_price == MarketPrice(market_snapshot, order)
        bps == PlanSlippageBps(plan)
    IN  IF IsAlgOrder(order)
        THEN LET tw == TwapRun(TwapStart(order, OrderSlices(order), draws), order,
                               market_price, AdvUsd(market_snapshot, order),
                               OrderPercent(order, plan), OrderDuration(order),
                               OrderSlices(order), bps, tape)
             IN  [result |-> TwapOrderResult(order, tw), draws |-> tw.draws]
        ELSE LET res == ExecuteLeg(order, market_price, bps, tape[draws + 1])
             IN  [result |-> LegOrderResult(order, res),
                  draws |-> IF res.drew THEN draws + 1 ELSE draws]

RECURSIVE ExecuteOrders(_, _, _, _, _, _)
ExecuteOrders(plan, market_snapshot, idx, draws, tape, acc) ==
    IF idx >= Len(plan.orders) THEN acc
    ELSE LET one == ExecuteOneOrder(plan, market_snapshot, plan.orders[idx + 1], draws, tape)
         IN  ExecuteOrders(plan, market_snapshot, idx + 1, one.draws, tape,
                           [status |-> "ok",
                            fills |-> Append(acc.fills, one.result),
                            metrics |-> AddMetrics(acc.metrics, one.result)])

\* execute_order(execution_plan, "sandbox", market_snapshot, seed), tape being the
\* values random.Random(seed) gives
ExecuteOrder(plan, market_snapshot, tape) ==
    ExecuteOrders(plan, market_snapshot, 0, 0, tape,
                  [status |-> "ok", fills |-> << >>, metrics |-> ZeroMetrics])

----------------------------------------------------------------------------
(* Seeded generators.  A generator is the stream of values its seed gives  *)
(* and the number of values taken from it so far; the stream is read round *)
(* and round, so that a generator never runs dry.                          *)

\* random.Random(seed) (execution_stub.py line 243) and
\* np.random.default_rng(seed) (decay_sim.py line 70): a generator at the
\* start of the stream of its seed, whatever generator `last` an earlier call
\* left behind
MutNewGeneratorCarriesOn(stream, last) == [stream |-> stream, pos |-> last.pos]

NewGenerator(stream, last) == [stream |-> stream, pos |-> 0]

\* The i-th value a generator gives next
NextValue(g, i) == g.stream[((g.pos + i - 1) % Len(g.stream)) + 1]

\* The generator after n values were taken
Advance(g, n) == [g EXCEPT !.pos = (g.pos + n) % Len(g.stream)]

\* The next n values of a generator
NextValues(g, n) == [i \in 1..n |-> NextValue(g, i)]

\* seed if seed is not None else 0 (execution_stub.py line 243)
SeedOrZero(seed) == OrElse(seed, 0)

\* The number of values execute_order takes from its generator
RECURSIVE DrawsOfOrders(_, _, _, _, _)
DrawsOfOrders(plan, market_snapshot, idx, draws, tape) ==
    IF idx >= Len(plan.orders) THEN draws
    ELSE DrawsOfOrders(plan, market_snapshot, idx + 1,
                       ExecuteOneOrder(plan, market_snapshot, plan.orders[idx + 1],
                                       draws, tape).draws,
                       tape)

\* execute_order(execution_plan, "sandbox", market_snapshot, seed), stream being
\* what the seed gives and `last` the generator an earlier call left:
\* [ret, exc, gen], the report and the generator as the call leaves it
ExecuteOrderSeeded(plan, market_snapshot, stream, last) ==
    LET g == NewGenerator(stream, last)
        tape == NextValues(g, Len(plan.orders) * (DefaultSlices + 1))
    IN  [ret |-> Some(ExecuteOrder(plan, market_snapshot, tape)),
         exc |-> "none",
         gen |-> Advance(g, DrawsOfOrders(plan, market_snapshot, 0, 0, tape))]

----------------------------------------------------------------------------
(* decay_sim.py.  A daily return and a daily factor are held in thousandths *)
(* (MilliUnit to the unit), a leverage is a whole number, and a T-day       *)
(* return over a window of w days is held in units of MilliUnit^-w, exact.  *)
(* A statistic is the fraction <<numerator, denominator>> of such units.    *)

MilliUnit == 1000

\* np.maximum(factors, -0.999) (line 82)
ClipFloor == -999

RECURSIVE Pow(_, _)
Pow(b, e) == IF e <= 0 THEN 1 ELSE b * Pow(b, e - 1)

RECURSIVE Prod(_)
Prod(s) == IF s = << >> THEN 1 ELSE Head(s) * Prod(Tail(s))

RECURSIVE SumSeq(_)
SumSeq(s) == IF s = << >> THEN 0 ELSE Head(s) + SumSeq(Tail(s))

\* np.sort: insert x into the sorted s
RECURSIVE Insert(_, _)
Insert(x, s) ==
    IF s = << >> THEN <<x>>
    ELSE IF x <= Head(s) THEN <<x>> \o s
    ELSE <<Head(s)>> \o Insert(x, Tail(s))

\* The results left in trial order
MutSortedKeepsOrder(s) == s

RECURSIVE Sorted(_)
Sorted(s) == IF s = << >> THEN << >> ELSE Insert(Head(s), Sorted(Tail(s)))

\* One daily factor after the clip (lines 78-82)
MutDailyFactorLeversPrice(leverage, r) == Max(leverage * (MilliUnit + r), ClipFloor)

DailyFactor(leverage, r) == Max(MilliUnit + leverage * r, ClipFloor)

\* The T-day return of the trial that starts at index s (lines 76-84)
TrialResult(underlying_returns, leverage, window, s) ==
    Prod([i \in 1..window |-> DailyFactor(leverage, underlying_returns[s + i])])
        - Pow(MilliUnit, window)

\* rng.integers(low=0, high=high, size=size) (line 72): each value of the
\* stream is brought into [0, high)
Integers(g, high, size) == [i \in 1..size |-> NextValue(g, i) % high]

\* np.percentile(results, q), linear interpolation between the two nearest
\* ranks of the sorted results, in hundredths of a unit
Percentile(sorted, q) ==
    LET h == q * (Len(sorted) - 1)
        lo == (h \div 100) + 1
        hi == Min(lo + 1, Len(sorted))
    IN  <<sorted[lo] * 100 + (h % 100) * (sorted[hi] - sorted[lo]), 100>>

\* The statistics of lines 86-98
DecayStats(results, leverage, window, trials) ==
    LET sorted == Sorted(results)
    IN  [mean |-> <<SumSeq(results), Len(results)>>,
         median |-> Percentile(sorted, 50),
         p10 |-> Percentile(sorted, 10),
         p25 |-> Percentile(sorted, 25),
         p75 |-> Percentile(sorted, 75),
         p90 |-> Percentile(sorted, 90),
         worst |-> <<sorted[1], 1>>,
         best |-> <<sorted[Len(sorted)], 1>>,
         trials |-> trials,
         window |-> window,
         leverage |-> leverage]

\* simulate_lef_decay(underlying_returns, leverage, window, trials, seed) for
\* trials > 0, stream being what the seed gives and `last` the generator an
\* earlier call left: [ret, exc, gen, starts]
SimulateLefDecay(underlying_returns, leverage, window, trials, stream, last) ==
    LET n == Len(underlying_returns)
    IN  IF window < 1
        THEN [ret |-> Absent, exc |-> "ValueError: window must be >= 1",
              gen |-> last, starts |-> << >>]
        ELSE IF n < window
        THEN [ret |-> Absent,
              exc |-> "ValueError: underlying_returns length must be at least window",
              gen |-> last, starts |-> << >>]
        ELSE LET g == NewGenerator(stream, last)
                 starts == Integers(g, n - window + 1, trials)
                 results == [i \in 1..trials |->
                               TrialResult(underlying_returns, leverage, window, starts[i])]
             IN  [ret |-> Some(DecayStats(results, leverage, window, trials)),
                  exc |-> "none",
                  gen |-> Advance(g, trials),
                  starts |-> starts]

\* underlying_returns[s : s + window] (line 76): a slice stops at the end of
\* the series
ReturnsSlice(underlying_returns, s, window) ==
    SubSeq(underlying_returns, s + 1, Min(s + window, Len(underlying_returns)))

\* The factors of one trial after the clip (lines 78-82)
ClippedFactors(leverage, slice_r) ==
    [i \in 1..Len(slice_r) |-> DailyFactor(leverage, slice_r[i])]

\* np.prod(factors) - 1.0 (lines 83-84)
CumulativeReturn(factors) == Prod(factors) - Pow(MilliUnit, Len(factors))

\* high of rng.integers (line 72)
MutStartsHighIgnoresWindow(n, window) == n

StartsHigh(n, window) == n - window + 1

\* np.mean(results) is the float sum of the results divided by their number:
\* exact for one or two equal results and for a sum of 0, and otherwise the
\* sum and the quotient are each rounded to a float, which leaves the mean
\* within one unit in the last place of the exact mean, on either side
MeanRoundings(results) ==
    IF Len(results) < 3 \/ SumSeq(results) = 0 THEN {0} ELSE {-1, 0, 1}

\* The mean as a float: <<numerator, denominator, rounding>>, the rounding in
\* units in the last place
RoundedMean(results, rounding) == <<SumSeq(results), Len(results), rounding>>

----------------------------------------------------------------------------
(* cli.py *)

PortfolioNav == 1000000
AllocPercent == 2
LargeQty == 1000

NoSorPolicy == [form |-> "none", prefix |-> FALSE, percent |-> Absent]
StringSorPolicy(prefix, percent) == [form |-> "string", prefix |-> prefix, percent |-> percent]
DictSorPolicy(percent) == [form |-> "dict", prefix |-> FALSE, percent |-> percent]

Order(ticker, side, qty, type, limit, algo, slices) ==
    [ticker |-> ticker, side |-> side, qty |-> qty, type |-> type, limit |-> limit,
     algo |-> algo, duration_minutes |-> Absent, slices |-> slices,
     percent_of_adv |-> Absent, limit_null |-> FALSE]

\* The order with "limit": None: the key is there, and holds no price
WithNullLimit(order) == [order EXCEPT !.limit = Absent, !.limit_null = TRUE]

\* round(a / b) for positive a, b: Python rounds a half to the even neighbour
RoundDiv(a, b) ==
    LET q == a \div b
        r2 == 2 * (a % b)
    IN  IF r2 > b \/ (r2 = b /\ q % 2 = 1) THEN q + 1 ELSE q

\* The ticker and the instrument type the plan builder reads from the record
\* (lines 56-58, 70)
SuggestedInstrument(decision) ==
    LET llm == IF Truthy(Get(decision, "llm_output")) THEN Get(decision, "llm_output")
               ELSE PyDict(EmptyDict)
    IN  GetOr(llm[2], "suggested_instrument", PyDict(EmptyDict))[2]

InstrumentTicker(decision) ==
    GetOr(SuggestedInstrument(decision), "ticker", PyStr("SPY"))[2]

\* build_execution_plan_from_decision(decision, 1_000_000.0, {ticker: price})
BuildExecutionPlanFromDecision(decision, price) ==
    LET instr == SuggestedInstrument(decision)
        ticker == InstrumentTicker(decision)
        qty == Max(1, RoundDiv(PortfolioNav * AllocPercent, 100 * price))
        is_alg == qty > LargeQty \/ Upper(GetOr(instr, "type", PyStr(""))[2]) = "LETF"
    IN  [orders |-> << [Order(ticker, "BUY", qty, Some(IF is_alg THEN "ALG" ELSE "MARKET"),
                              Absent, IF is_alg THEN Some("TWAP") ELSE Absent,
                              IF is_alg THEN Some(6) ELSE Absent)
                          EXCEPT !.duration_minutes = IF is_alg THEN Some(30) ELSE Absent] >>,
         sor_policy |-> StringSorPolicy(TRUE, Some(5)),
         max_slippage_bps |-> Some(5)]


\* The Python values of a plan and of a fill report, as json writes them
OptToPy(opt, tag) == IF opt = Absent THEN PyNone ELSE <<tag, opt[1]>>

OrderToPy(order) ==
    LET given == [ticker |-> Some(PyStr(order.ticker)),
                  side |-> Some(PyStr(order.side)),
                  qty |-> Some(PyInt(order.qty)),
                  type |-> IF order.type = Absent THEN Absent ELSE Some(PyStr(order.type[1])),
                  limit |-> IF order.limit = Absent THEN Absent ELSE Some(PyInt(order.limit[1])),
                  algo |-> IF order.algo = Absent THEN Absent ELSE Some(PyStr(order.algo[1])),
                  duration_minutes |-> IF order.duration_minutes = Absent THEN Absent
                                       ELSE Some(PyInt(order.duration_minutes[1])),
                  slices |-> IF order.slices = Absent THEN Absent
                             ELSE Some(PyInt(order.slices[1]))]
        ks == {k \in DOMAIN given : given[k] # Absent}
    IN  PyDict([k \in ks |-> given[k][1]])

PlanToPy(plan) ==
    PyDict([orders |-> PyList([i \in 1..Len(plan.orders) |-> OrderToPy(plan.orders[i])]),
            sor_policy |-> PyStr("percent_of_adv=0.05"),
            max_slippage_bps |-> PyInt(plan.max_slippage_bps[1])])

FillToPy(f) ==
    IF f.kind = "slice"
    THEN PyDict([slice |-> PyInt(f.slice), requested |-> PyInt(f.requested),
                 filled |-> PyInt(f.filled), price |-> OptToPy(f.price, "price"),
                 status |-> PyStr(f.status)])
    ELSE PyDict([qty |-> PyInt(f.filled), price |-> OptToPy(f.price, "price"),
                 status |-> PyStr(f.status)])

OrderResultToPy(r) ==
    PyDict([ticker |-> PyStr(r.ticker), requested_qty |-> PyInt(r.requested_qty),
            filled_qty |-> PyInt(r.filled_qty),
            avg_fill_price |-> OptToPy(r.avg_fill_price, "price"),
            status |-> PyStr(r.status),
            fills |-> PyList([i \in 1..Len(r.fills) |-> FillToPy(r.fills[i])])])

ResultToPy(res) ==
    PyDict([status |-> PyStr(res.status),
            fills |-> PyList([i \in 1..Len(res.fills) |-> OrderResultToPy(res.fills[i])]),
            metrics |-> PyDict(
                [total_requested |-> PyInt(res.metrics.total_requested),
                 total_filled |-> PyInt(res.metrics.total_filled),
                 notional_filled_usd |-> <<"price", res.metrics.notional_filled_usd>>])])

\* The snapshot run_sandbox_signal_example falls back to (lines 155-158)
DefaultSnapshot(ticker) ==
    [t \in {ticker} |-> [price |-> Some(100), adv |-> Some(5000000)]]

\* run_sandbox_signal_example(decision_path, market_snapshot): the file system
\* after the call, what it returned or raised, and its local record `rec`
RunSandboxSignalExample(fs, decision_path, snapshot, uuid, now, tape) ==
    IF fs[decision_path] = NoFile
    THEN [files |-> fs, ret |-> PyNone, exc |-> "none", rec |-> EmptyDict]
    ELSE LET r0 == LoadDecisionRecord(fs, decision_path).ret[2]
             ticker == InstrumentTicker(r0)
             market_snapshot == IF snapshot = Absent THEN DefaultSnapshot(ticker)
                                ELSE snapshot[1]
         IN  IF \/ ticker \notin DOMAIN market_snapshot
                \/ market_snapshot[ticker].price = Absent
             THEN [files |-> fs, ret |-> PyNone, exc |-> "KeyError", rec |-> r0]
             ELSE LET plan == BuildExecutionPlanFromDecision(
                                  r0, market_snapshot[ticker].price[1])
                      res == ExecuteOrder(plan, market_snapshot, tape)
                      r1 == DictSet(r0, "execution_plan", PlanToPy(plan))
                      r2 == DictSet(r1, "execution_result", ResultToPy(res))
                      r3 == DictSet(r2, "post_execution_audit_hash",
                                    Get(MakeRecord(r2, TRUE, uuid, now), "audit_hash"))
                  IN  [files |-> SaveDecisionRecord(fs, r3, decision_path, uuid, now).files,
                       ret |-> ResultToPy(res), exc |-> "none", rec |-> r3]


----------------------------------------------------------------------------
(* ev_calc.py.  A probability is held in hundredths, a scenario delta in   *)
(* units of 1e-4, and an expected value, a cost, a decay mean or a safety  *)
(* margin in units of 1e-6 (a probability times a delta).  A missing key   *)
(* of a dict is <<>>.                                                      *)

\* 1.0 as a probability
ProbUnit == 100

\* The confidence gate of line 77, 0.7
ConfidenceFloor == 70

\* signal.get("p_confidence", 1.0) (line 75)
PConfidence(signal) == OrElse(signal.p_confidence, ProbUnit)

\* signal.get("expected_delta", {}) or {} and its three reads (lines 50-53)
ExpectedDelta(signal, key) ==
    IF signal.expected_delta = Absent THEN 0
    ELSE OrElse(signal.expected_delta[1][key], 0)

\* ev_gross = p * fav + (1.0 - p) * unfav (line 59)
EvGross(signal) ==
    LET p == OrElse(signal.p_success, 0)
    IN  p * ExpectedDelta(signal, "fav") + (ProbUnit - p) * ExpectedDelta(signal, "unfav")

\* The drag of lines 62-69: decay_stats is None (<<>>) or a dict with or
\* without a mean
MutLetfDecaySigned(decay_stats) ==
    IF decay_stats = Absent THEN 0 ELSE -OrElse(decay_stats[1].mean, 0)

LetfDecay(decay_stats) ==
    IF decay_stats = Absent THEN 0
    ELSE Max(0, -OrElse(decay_stats[1].mean, 0))

\* lines 77-78
MutViabilityPassAtMargin(ev_net, safety_margin, p_conf) ==
    (ev_net >= safety_margin) /\ (p_conf >= ConfidenceFloor)

ViabilityPass(ev_net, safety_margin, p_conf) ==
    (ev_net > safety_margin) /\ (p_conf >= ConfidenceFloor)

\* lines 80-84
EvNotes(ev_net, safety_margin, p_conf) ==
    IF ~(p_conf >= ConfidenceFloor) THEN "Low model confidence; human review recommended."
    ELSE IF ev_net <= safety_margin THEN "Net EV below safety margin."
    ELSE ""

\* compute_ev(signal, decay_stats, trading_costs, slippage, safety_margin)
ComputeEv(signal, decay_stats, trading_costs, slippage, safety_margin) ==
    LET ev_gross == EvGross(signal)
        letf_decay == LetfDecay(decay_stats)
        ev_net == ev_gross - letf_decay - trading_costs - slippage
        p_conf == PConfidence(signal)
    IN  [ev_gross |-> ev_gross,
         letf_decay |-> letf_decay,
         ev_net |-> ev_net,
         viability_pass |-> ViabilityPass(ev_net, safety_margin, p_conf),
         p_confidence |-> p_conf,
         safety_margin |-> safety_margin,
         notes |-> EvNotes(ev_net, safety_margin, p_conf)]

\* A float argument of compute_t_max: a finite number (a leverage in tenths,
\* a volatility in hundredths), NaN, +inf, or "tiny", a positive number so
\* small that 0.20 divided by it is beyond the largest float
Finite(v) == [kind |-> "finite", v |-> v]
NaN == [kind |-> "nan", v |-> 0]
PosInf == [kind |-> "inf", v |-> 0]
Tiny == [kind |-> "tiny", v |-> 0]

\* baseline_vol, 0.20, which is also the fallback of line 110
BaselineVol == 20

\* Clamp of line 124
MaxDays == 90

\* est_vol_annual <= 0 (line 108): false of NaN
VolOrFallback(est_vol_annual) ==
    IF est_vol_annual.kind = "finite"
    THEN (IF est_vol_annual.v <= 0 THEN Finite(BaselineVol) ELSE est_vol_annual)
    ELSE est_vol_annual

\* The 5, 10 or 30 of lines 116-121: abs(leverage) >= 3.0 is false of NaN
BaselineDays(leverage) ==
    IF leverage.kind = "nan" THEN 30
    ELSE IF leverage.kind = "inf" THEN 5
    ELSE IF Abs(leverage.v) >= 30 THEN 5
    ELSE IF Abs(leverage.v) >= 20 THEN 10
    ELSE 30

\* max(1, round(base * (baseline_vol / vol))) clamped to [1, 90] (lines 117-125)
ClampedDays(base, v) == Max(1, Min(Max(1, RoundDiv(base * BaselineVol, v)), MaxDays))

\* compute_t_max(leverage, est_vol_annual): round() raises on NaN and on inf
ComputeTMax(leverage, est_vol_annual) ==
    LET vol == VolOrFallback(est_vol_annual)
        base == BaselineDays(leverage)
    IN  IF vol.kind = "nan"
        THEN [ret |-> Absent, exc |-> "ValueError: cannot convert float NaN to integer"]
        ELSE IF vol.kind = "tiny"
        THEN [ret |-> Absent, exc |-> "OverflowError: cannot convert float infinity to integer"]
        ELSE IF vol.kind = "inf"
        THEN [ret |-> Some(Max(1, Min(Max(1, 0), MaxDays))), exc |-> "none"]
        ELSE [ret |-> Some(ClampedDays(base, vol.v)), exc |-> "none"]

----------------------------------------------------------------------------
(* The audit ledger and its callers as a state machine: a caller holds a   *)
(* decision record and calls the functions of audit.py and the CLI on it.  *)

Paths == {"decision_demo.json"}
Uuids == {"uuid-a", "uuid-b"}
Clock == {"2026-01-01T00:00:00+00:00"}
Signers == {"alice"}

\* Stored quant_checks
QcSmall == PyDict([ev_net |-> PyFloat(0), notes |-> PyStr("")])
QcLarge == PyDict([ev_net |-> PyFloat(2 * FloatUnit), viability_pass |-> PyBool(TRUE)])

LetfSignal ==
    PyDict([suggested_instrument |->
                PyDict([type |-> PyStr("LETF"), ticker |-> PyStr("SSO")])])

\* A dict from the optional values of its keys
DictOf(given) == [k \in {x \in DOMAIN given : given[x] # Absent} |-> given[k][1]]

\* The decision_id, timestamp_utc and audit_hash a caller's record starts with
InitialIdentities ==
    { <<Absent, Absent, Absent>>,
      <<Some(PyStr("")), Absent, Absent>>,
      <<Some(PyStr("id-0")), Absent, Absent>>,
      <<Some(PyStr("id-0")), Some(PyStr("2025-12-31T00:00:00+00:00")), Absent>>,
      <<Some(PyStr("id-0")), Some(PyStr("2025-12-31T00:00:00+00:00")), Some(PyStr("stale"))>> }

\* Its quant_checks and llm_output
InitialContents ==
    { <<Absent, Absent>>,
      <<Some(PyNone), Absent>>,
      <<Some(QcSmall), Some(LetfSignal)>>,
      <<Some(QcLarge), Absent>> }

\* The records a caller starts from
InitialRecords ==
    { DictOf([decision_id |-> id[1], timestamp_utc |-> id[2], audit_hash |-> id[3],
              quant_checks |-> c[1], llm_output |-> c[2],
              prompt_hash |-> Some(PyStr("demo_prompt_hash_0001"))]) :
        id \in InitialIdentities, c \in InitialContents }

\* What a validator may return
ValidatorOutputs ==
    { PyNone,
      PyDict(EmptyDict),
      PyDict([ev_net |-> PyFloat(5)]),
      PyDict([ev_net |-> PyFloat(15)]),
      PyDict([ev_net |-> PyFloat(2 * FloatUnit + 15), viability_pass |-> PyInt(1)]),
      PyDict([ev_net |-> PyFloat(2 * FloatUnit + 25), notes |-> PyStr("")]),
      PyDict([notes |-> PyStr("changed"), ev_net |-> PyNone]) }

Validators ==
    {NoValidator, RaisingValidator, EchoValidator}
        \cup {ConstValidator(v) : v \in ValidatorOutputs}

\* What a caller may do to its sealed record
\*   set     rec[key] = value                 drop     del rec[key]
\*   inset   rec["quant_checks"][key] = value indrop   del rec["quant_checks"][key]
Mutations ==
    { [kind |-> "set", key |-> "prompt_hash", value |-> PyStr("edited")],
      [kind |-> "set", key |-> "reviewer", value |-> PyNone],
      [kind |-> "set", key |-> "signature", value |-> PyStr("edited")],
      [kind |-> "drop", key |-> "prompt_hash", value |-> PyNone],
      [kind |-> "drop", key |-> "signature", value |-> PyNone],
      [kind |-> "inset", key |-> "ev_net", value |-> PyFloat(5)],
      [kind |-> "inset", key |-> "audit_hash", value |-> PyInt(0)],
      [kind |-> "indrop", key |-> "ev_net", value |-> PyNone] }

Applies(m, r) ==
    CASE m.kind = "set" -> Get(r, m.key) # m.value
      [] m.kind = "drop" -> m.key \in DOMAIN r
      [] m.kind = "inset" ->
           IF IsDict(Get(r, "quant_checks"))
           THEN Get(r["quant_checks"][2], m.key) # m.value
           ELSE FALSE
      [] m.kind = "indrop" ->
           IF IsDict(Get(r, "quant_checks"))
           THEN m.key \in DOMAIN r["quant_checks"][2]
           ELSE FALSE

Mutate(m, r) ==
    CASE m.kind = "set" -> DictSet(r, m.key, m.value)
      [] m.kind = "drop" -> DictPop(r, m.key)
      [] m.kind = "inset" ->
           DictSet(r, "quant_checks", PyDict(DictSet(r["quant_checks"][2], m.key, m.value)))
      [] m.kind = "indrop" ->
           DictSet(r, "quant_checks", PyDict(DictPop(r["quant_checks"][2], m.key)))

NoMutation == [kind |-> "none", key |-> "", value |-> PyNone]

\* The inputs of a call besides the record
How(path, ensure_ids, signer, validator, mutation) ==
    [path |-> path, ensure_ids |-> ensure_ids, signer |-> signer,
     validator |-> validator, mutation |-> mutation]

NoHow == How("", TRUE, "", NoValidator, NoMutation)

\* No seeded call has been made
RunsIdle ==
    /\ streams = << >>
    /\ live = [stream |-> << >>, pos |-> 0]
    /\ runs = << >>

\* No call of ev_calc.py has been made
QuantIdle == quant = [fn |-> "none"]

\* simulate_lef_decay is not running
SimIdle == sim = [pc |-> "idle"]

ExecIdle ==
    /\ call = [plan |-> [orders |-> << >>, sor_policy |-> NoSorPolicy,
                         max_slippage_bps |-> Absent],
               market_snapshot |-> << >>, mode |-> "sandbox"]
    /\ drawn = << >>
    /\ ex = [pc |-> "idle", idx |-> 0, fills |-> << >>, metrics |-> ZeroMetrics,
             tw |-> TwapStart([qty |-> 0], 0, 0)]

InitAudit ==
    /\ rec \in InitialRecords
    /\ pre = rec
    /\ arg = rec
    /\ out = PyNone
    /\ exc = "none"
    /\ op = "init"
    /\ how = NoHow
    /\ files = [p \in Paths |-> NoFile]
    /\ saved = [p \in Paths |-> EmptyDict]
    /\ steps = 0
    /\ ExecIdle
    /\ RunsIdle
    /\ QuantIdle
    /\ SimIdle

\* rec = make_decision_record(rec)
Seal ==
    /\ steps < MaxSteps
    /\ \E ensure_ids \in BOOLEAN, uuid \in Uuids, now \in Clock :
          LET r == MakeDecisionRecord(rec, ensure_ids, uuid, now)
          IN  /\ pre' = rec
              /\ arg' = r.arg
              /\ out' = r.ret
              /\ exc' = r.exc
              /\ rec' = r.ret[2]
              /\ how' = How("", ensure_ids, "", NoValidator, NoMutation)
    /\ op' = "make"
    /\ steps' = steps + 1
    /\ UNCHANGED <<files, saved, call, drawn, ex, runVars, quantVars, decayVars>>

\* rec = sign_decision(rec, signer)
Sign ==
    /\ steps < MaxSteps
    /\ \E signer \in Signers, now \in Clock :
          LET r == SignDecision(rec, signer, now)
          IN  /\ pre' = rec
              /\ arg' = r.arg
              /\ out' = r.ret
              /\ exc' = r.exc
              /\ rec' = IF r.exc = "none" THEN r.ret[2] ELSE r.arg
              /\ how' = How("", TRUE, signer, NoValidator, NoMutation)
    /\ op' = "sign"
    /\ steps' = steps + 1
    /\ UNCHANGED <<files, saved, call, drawn, ex, runVars, quantVars, decayVars>>

\* save_decision_record(rec, path)
Save ==
    /\ steps < MaxSteps
    /\ \E path \in Paths, uuid \in Uuids, now \in Clock :
          LET r == SaveDecisionRecord(files, rec, path, uuid, now)
          IN  /\ pre' = rec
              /\ arg' = r.arg
              /\ rec' = r.arg
              /\ out' = r.ret
              /\ exc' = r.exc
              /\ files' = r.files
              /\ saved' = [saved EXCEPT ![path] = rec]
              /\ how' = How(path, TRUE, "", NoValidator, NoMutation)
    /\ op' = "save"
    /\ steps' = steps + 1
    /\ UNCHANGED <<call, drawn, ex, runVars, quantVars, decayVars>>

\* rec = load_decision_record(path)
Load ==
    /\ steps < MaxSteps
    /\ \E path \in Paths :
          LET r == LoadDecisionRecord(files, path)
          IN  /\ out' = r.ret
              /\ exc' = r.exc
              /\ rec' = IF r.exc = "none" /\ IsDict(r.ret) THEN r.ret[2] ELSE rec
              /\ how' = How(path, TRUE, "", NoValidator, NoMutation)
    /\ pre' = rec
    /\ arg' = rec
    /\ op' = "load"
    /\ steps' = steps + 1
    /\ UNCHANGED <<files, saved, call, drawn, ex, runVars, quantVars, decayVars>>

\* The caller changes its sealed record without resealing it
Tamper ==
    /\ steps < MaxSteps
    /\ VerifyAuditHash(rec)
    /\ \E m \in Mutations :
          /\ Applies(m, rec)
          /\ rec' = Mutate(m, rec)
          /\ how' = How("", TRUE, "", NoValidator, m)
    /\ pre' = rec
    /\ arg' = rec
    /\ out' = PyNone
    /\ exc' = "none"
    /\ op' = "tamper"
    /\ steps' = steps + 1
    /\ UNCHANGED <<files, saved, call, drawn, ex, runVars, quantVars, decayVars>>

\* replay_decision(path, deterministic_validator)
Replay ==
    /\ steps < MaxSteps
    /\ \E path \in Paths, validator \in Validators :
          LET r == ReplayDecision(files, path, validator)
          IN  /\ out' = r.ret
              /\ exc' = r.exc
              /\ how' = How(path, TRUE, "", validator, NoMutation)
    /\ pre' = rec
    /\ arg' = rec
    /\ op' = "replay"
    /\ steps' = MaxSteps    \* a replay reads only: a bounded run ends with it
    /\ UNCHANGED <<rec, files, saved, call, drawn, ex, runVars, quantVars, decayVars>>

\* The values random.Random(42) gives run_sandbox_signal_example
SandboxTapes == {[i \in 1..(DefaultSlices + 1) |-> j] : j \in JitterValues}

\* run_sandbox_signal_example(path)
Sandbox ==
    /\ steps < MaxSteps
    /\ \E path \in Paths, uuid \in Uuids, now \in Clock, t \in SandboxTapes :
          LET r == RunSandboxSignalExample(files, path, Absent, uuid, now, t)
          IN  /\ out' = r.ret
              /\ exc' = r.exc
              /\ files' = r.files
              \* the function's local record as loaded, and as passed to save
              /\ pre' = IF files[path] = NoFile THEN EmptyDict
                        ELSE LoadDecisionRecord(files, path).ret[2]
              /\ arg' = r.rec
              /\ saved' = IF r.files = files THEN saved
                          ELSE [saved EXCEPT ![path] = r.rec]
              /\ how' = How(path, TRUE, "", NoValidator, NoMutation)
    /\ op' = "sandbox"
    /\ steps' = steps + 1
    /\ UNCHANGED <<rec, call, drawn, ex, runVars, quantVars, decayVars>>

NextAudit == Seal \/ Sign \/ Save \/ Load \/ Tamper \/ Replay \/ Sandbox

SpecAudit == InitAudit /\ [][NextAudit]_vars


----------------------------------------------------------------------------
(* execute_order as a state machine: one step per order of the plan, and   *)
(* one per slice of an ALG/TWAP order.                                     *)

\* The orders of the model, all for one ticker at a market price of 100
ModelOrders ==
    { Order("SPY", "BUY", 7, Some("MARKET"), Absent, Absent, Absent),
      Order("SPY", "SELL", 7, Absent, Absent, Absent, Absent),
      Order("SPY", "sell", 3, Some("STOP"), Some(104), Absent, Absent),
      Order("SPY", "BUY", 0, Some("MARKET"), Absent, Absent, Absent),
      Order("SPY", "BUY", 7, Some("LIMIT"), Some(96), Absent, Absent),
      Order("SPY", "BUY", 7, Some("LIMIT"), Some(100), Absent, Absent),
      Order("SPY", "SELL", 7, Some("limit"), Some(96), Absent, Absent),
      Order("SPY", "SELL", 7, Some("LIMIT"), Some(104), Absent, Absent),
      Order("SPY", "BUY", 7, Some("LIMIT"), Absent, Absent, Absent),
      WithNullLimit(Order("SPY", "BUY", 7, Some("LIMIT"), Absent, Absent, Absent)),
      Order("SPY", "BUY", 7, Some("ALG"), Absent, Some("TWAP"), Some(2)),
      Order("SPY", "SELL", 3, Some("ALG"), Absent, Absent, Absent),
      Order("SPY", "SELL", 6, Some("ALG"), Absent, Some("TWAP"), Some(2)),
      Order("SPY", "BUY", 7, Some("MARKET"), Absent, Some("twap"), Some(2)),
      Order("SPY", "BUY", 7, Some("LIMIT"), Some(96), Some("TWAP"), Some(2)),
      Order("SPY", "BUY", 0, Some("ALG"), Absent, Some("TWAP"), Some(2)),
      Order("SPY", "BUY", 7, Some("ALG"), Absent, Some("TWAP"), Some(0)) }

\* The market snapshots of the model: none for the ticker, or a price and an ADV
ModelSnapshots ==
    { << >> }
    \cup { [t \in {"SPY"} |-> [price |-> p, adv |-> a]] :
             p \in {Some(100)}, a \in {Absent, Some(0), Some(52000), Some(104000), Some(5000000)} }
    \cup { [t \in {"SPY"} |-> [price |-> Absent, adv |-> Some(52000)]] }

ModelPolicies ==
    { <<NoSorPolicy, Absent>>,
      <<StringSorPolicy(TRUE, Absent), Some(0)>>,
      <<DictSorPolicy(Some(10)), Some(8)>> }

\* The orders that come before the last one of a plan: one that draws once,
\* one that draws nothing, one that fills at its limit, one that draws per slice
LeadOrders ==
    { Order("SPY", "BUY", 7, Some("MARKET"), Absent, Absent, Absent),
      Order("SPY", "BUY", 7, Some("LIMIT"), Some(96), Absent, Absent),
      Order("SPY", "SELL", 7, Some("limit"), Some(96), Absent, Absent),
      Order("SPY", "BUY", 7, Some("ALG"), Absent, Some("TWAP"), Some(2)) }

Plans(n) ==
    { [orders |-> os, sor_policy |-> pol[1], max_slippage_bps |-> pol[2]] :
        os \in { s \in [1..n -> ModelOrders] : \A i \in 1..(n - 1) : s[i] \in LeadOrders },
        pol \in ModelPolicies }

AuditIdle ==
    /\ rec = EmptyDict
    /\ pre = EmptyDict
    /\ arg = EmptyDict
    /\ out = PyNone
    /\ exc = "none"
    /\ op = "init"
    /\ how = NoHow
    /\ files = [p \in Paths |-> NoFile]
    /\ saved = [p \in Paths |-> EmptyDict]
    /\ steps = 0

InitExec ==
    /\ \E n \in 0..MaxOrders, mode \in {"sandbox", "live"} :
          \E plan \in Plans(n), snapshot \in ModelSnapshots :
              call = [plan |-> plan, market_snapshot |-> snapshot, mode |-> mode]
    /\ drawn = << >>
    /\ ex = [pc |-> "start", idx |-> 0, fills |-> << >>, metrics |-> ZeroMetrics,
             tw |-> TwapStart([qty |-> 0], 0, 0)]
    /\ AuditIdle
    /\ RunsIdle
    /\ QuantIdle
    /\ SimIdle

CurrentOrder == call.plan.orders[ex.idx + 1]

\* lines 240-247
Enter ==
    /\ ex.pc = "start"
    /\ ex' = [ex EXCEPT !.pc = IF call.mode # "sandbox" THEN "raised" ELSE "loop"]
    /\ UNCHANGED <<call, drawn, auditVars, runVars, quantVars, decayVars>>

\* float() of the market price raises TypeError, which execute_order lets
\* through (line 256)
PriceRaises ==
    /\ ex.pc = "loop"
    /\ ex.idx < Len(call.plan.orders)
    /\ MarketPriceRaises(call.market_snapshot, CurrentOrder)
    /\ ex' = [ex EXCEPT !.pc = "type_error"]
    /\ UNCHANGED <<call, drawn, auditVars, runVars, quantVars, decayVars>>

\* A MARKET or LIMIT order (lines 296-314)
ExecLeg ==
    /\ ex.pc = "loop"
    /\ ex.idx < Len(call.plan.orders)
    /\ ~MarketPriceRaises(call.market_snapshot, CurrentOrder)
    /\ ~IsAlgOrder(CurrentOrder)
    /\ \E jitter \in JitterValues :
          LET res == ExecuteLeg(CurrentOrder, MarketPrice(call.market_snapshot, CurrentOrder),
                                PlanSlippageBps(call.plan), jitter)
              r == LegOrderResult(CurrentOrder, res)
          IN  /\ drawn' = IF res.drew THEN Append(drawn, jitter) ELSE drawn
              /\ ex' = [ex EXCEPT !.idx = ex.idx + 1,
                                  !.fills = Append(ex.fills, r),
                                  !.metrics = AddMetrics(ex.metrics, r)]
    /\ UNCHANGED <<call, auditVars, runVars, quantVars, decayVars>>

\* An ALG/TWAP order enters _simulate_twap_fill (lines 271-282, 80-86)
TwapBegin ==
    /\ ex.pc = "loop"
    /\ ex.idx < Len(call.plan.orders)
    /\ ~MarketPriceRaises(call.market_snapshot, CurrentOrder)
    /\ IsAlgOrder(CurrentOrder)
    /\ ex' = [ex EXCEPT !.pc = "twap",
                        !.tw = TwapStart(CurrentOrder, OrderSlices(CurrentOrder), Len(drawn))]
    /\ UNCHANGED <<call, drawn, auditVars, runVars, quantVars, decayVars>>

\* One slice (lines 87-123)
TwapStep ==
    /\ ex.pc = "twap"
    /\ ~ex.tw.done
    /\ \E jitter \in JitterValues :
          LET st == TwapSlice(ex.tw, CurrentOrder,
                              MarketPrice(call.market_snapshot, CurrentOrder),
                              AdvUsd(call.market_snapshot, CurrentOrder),
                              OrderPercent(CurrentOrder, call.plan),
                              OrderDuration(CurrentOrder), OrderSlices(CurrentOrder),
                              PlanSlippageBps(call.plan), Append(drawn, jitter))
          IN  /\ drawn' = IF st.draws > ex.tw.draws THEN Append(drawn, jitter) ELSE drawn
              /\ ex' = [ex EXCEPT !.tw = st]
    /\ UNCHANGED <<call, auditVars, runVars, quantVars, decayVars>>

\* _simulate_twap_fill returns and the order is reported (lines 125-126, 283-314)
TwapEnd ==
    /\ ex.pc = "twap"
    /\ ex.tw.done
    /\ LET r == TwapOrderResult(CurrentOrder, ex.tw)
       IN  ex' = [ex EXCEPT !.pc = "loop",
                            !.idx = ex.idx + 1,
                            !.fills = Append(ex.fills, r),
                            !.metrics = AddMetrics(ex.metrics, r)]
    /\ UNCHANGED <<call, drawn, auditVars, runVars, quantVars, decayVars>>

\* line 316
Return ==
    /\ ex.pc = "loop"
    /\ ex.idx = Len(call.plan.orders)
    /\ ex' = [ex EXCEPT !.pc = "done"]
    /\ UNCHANGED <<call, drawn, auditVars, runVars, quantVars, decayVars>>

NextExec == Enter \/ PriceRaises \/ ExecLeg \/ TwapBegin \/ TwapStep \/ TwapEnd \/ Return

SpecExec == InitExec /\ [][NextExec]_vars

----------------------------------------------------------------------------
(* The seeded functions called one after the other by one caller: each     *)
(* call of execute_order or simulate_lef_decay is one step, and the caller *)
(* keeps what every call returned.                                         *)

\* The seeds of the model
Seeds == {0, 1}

\* What one seed gives: to random.Random(seed) the jitters, to
\* np.random.default_rng(seed) the numbers that rng.integers brings into range
ModelStreams ==
    { [py |-> <<-25, 25, 0>>, np |-> <<0, 1, 2>>],
      [py |-> <<0, -25, 25>>, np |-> <<2, 0, 1>>],
      [py |-> <<25, 25, -25>>, np |-> <<1, 1, 0>>] }

RunPlans ==
    { [orders |-> os, sor_policy |-> NoSorPolicy, max_slippage_bps |-> Absent] :
        os \in { <<Order("SPY", "BUY", 7, Some("MARKET"), Absent, Absent, Absent)>>,
                 <<Order("SPY", "BUY", 7, Some("ALG"), Absent, Some("TWAP"), Some(2))>>,
                 <<Order("SPY", "SELL", 7, Some("limit"), Some(96), Absent, Absent),
                   Order("SPY", "BUY", 7, Some("ALG"), Absent, Some("TWAP"), Some(2))>> } }

RunSnapshots == { [t \in {"SPY"} |-> [price |-> Some(100), adv |-> Some(52000)]] }

\* Return series, in thousandths
RunReturns == { <<0>>, <<100, -700>>, <<-100, 0, 100>> }

RunLeverages == {3}
RunWindows == {0, 1, 2}
RunTrials == {2}

InitRuns ==
    /\ streams \in [Seeds -> ModelStreams]
    /\ live = [stream |-> << >>, pos |-> 0]
    /\ runs = << >>
    /\ AuditIdle
    /\ ExecIdle
    /\ QuantIdle
    /\ SimIdle

\* execute_order(plan, "sandbox", market_snapshot, seed)
RunExecuteOrder ==
    /\ Len(runs) < MaxRuns
    /\ \E plan \in RunPlans, snapshot \in RunSnapshots, seed \in {Absent} \cup {Some(x) : x \in Seeds} :
          LET r == ExecuteOrderSeeded(plan, snapshot, streams[SeedOrZero(seed)].py, live)
          IN  /\ runs' = Append(runs, [fn |-> "execute_order",
                                       args |-> <<plan, snapshot, seed>>,
                                       ret |-> r.ret, exc |-> r.exc, after |-> live.pos])
              /\ live' = r.gen
    /\ UNCHANGED <<streams, auditVars, execVars, quantVars, decayVars>>

\* simulate_lef_decay(underlying_returns, leverage, window, trials, seed)
RunSimulateLefDecay ==
    /\ Len(runs) < MaxRuns
    /\ \E underlying_returns \in RunReturns, leverage \in RunLeverages, window \in RunWindows, trials \in RunTrials, seed \in Seeds :
          LET r == SimulateLefDecay(underlying_returns, leverage, window, trials,
                                    streams[seed].np, live)
          IN  /\ runs' = Append(runs, [fn |-> "simulate_lef_decay",
                                       args |-> <<underlying_returns, leverage, window,
                                                  trials, seed>>,
                                       ret |-> r.ret, exc |-> r.exc, after |-> live.pos])
              /\ live' = r.gen
    /\ UNCHANGED <<streams, auditVars, execVars, quantVars, decayVars>>

NextRuns == RunExecuteOrder \/ RunSimulateLefDecay

SpecRuns == InitRuns /\ [][NextRuns]_vars

----------------------------------------------------------------------------
(* ev_calc.py: one call of compute_ev or of compute_t_max, both of which   *)
(* read their arguments and nothing else.                                  *)

\* The signals of the model
EvSignals ==
    { [p_success |-> p, expected_delta |-> ed, p_confidence |-> pc] :
        p \in {Absent, Some(0), Some(50), Some(70), Some(100)},
        ed \in {Absent}
              \cup { Some([fav |-> f, neutral |-> n, unfav |-> u]) :
                        f \in {Absent, Some(200), Some(800)},
                        n \in {Absent, Some(0), Some(300)},
                        u \in {Absent, Some(-500)} },
        pc \in {Absent, Some(60), Some(69), Some(70), Some(80)} }

\* None, a dict without a mean, and dicts with a negative, zero or positive mean
EvDecayStats ==
    {Absent} \cup { Some([mean |-> m]) : m \in {Absent, Some(-2000), Some(0), Some(3000)} }

EvCosts == {0, 500}
EvMargins == {5000, 10000}

\* Leverages, in tenths
EvLeverages ==
    { Finite(v) : v \in {-30, -25, -20, 0, 10, 15, 19, 20, 29, 30, 50} } \cup {NaN, PosInf}

\* Volatilities, in hundredths
EvVols == { Finite(v) : v \in (-2)..120 } \cup {NaN, PosInf, Tiny}

InitEv ==
    /\ QuantIdle
    /\ SimIdle
    /\ AuditIdle
    /\ ExecIdle
    /\ RunsIdle

\* compute_ev(signal, decay_stats, trading_costs, slippage, safety_margin)
CallComputeEv ==
    /\ quant.fn = "none"
    /\ \E signal \in EvSignals, decay_stats \in EvDecayStats, trading_costs \in EvCosts, slippage \in EvCosts, safety_margin \in EvMargins :
          quant' = [fn |-> "compute_ev",
                    signal |-> signal,
                    decay_stats |-> decay_stats,
                    trading_costs |-> trading_costs,
                    slippage |-> slippage,
                    safety_margin |-> safety_margin,
                    ret |-> ComputeEv(signal, decay_stats, trading_costs, slippage,
                                      safety_margin)]
    /\ UNCHANGED <<auditVars, execVars, runVars, decayVars>>

\* compute_t_max(leverage, est_vol_annual)
CallComputeTMax ==
    /\ quant.fn = "none"
    /\ \E leverage \in EvLeverages, est_vol_annual \in EvVols :
          LET r == ComputeTMax(leverage, est_vol_annual)
          IN  quant' = [fn |-> "compute_t_max",
                        leverage |-> leverage,
                        est_vol_annual |-> est_vol_annual,
                        ret |-> r.ret,
                        exc |-> r.exc]
    /\ UNCHANGED <<auditVars, execVars, runVars, decayVars>>

NextEv == CallComputeEv \/ CallComputeTMax

SpecEv == InitEv /\ [][NextEv]_vars

----------------------------------------------------------------------------
(* simulate_lef_decay as a state machine: the two checks, the sampling of  *)
(* the start indices, one step per trial, and the statistics.              *)

\* Daily returns, in thousandths
DecayReturnValues == {-700, -500, 0, 200}

DecayReturns ==
    { << >>, <<0, 0, 0>> }
    \cup { <<r>> : r \in DecayReturnValues }
    \cup { <<r, q>> : r \in DecayReturnValues, q \in DecayReturnValues }

DecayLeverages == {-2, 1, 2, 3}
DecayWindows == {0, 1, 2, 3}
DecayTrials == {1, 2, 3}

\* What np.random.default_rng(seed) gives, for three seeds
DecayStreams == { <<0, 1, 2>>, <<2, 0, 1>>, <<1, 1, 0>> }

InitDecay ==
    /\ \E underlying_returns \in DecayReturns, leverage \in DecayLeverages, window \in DecayWindows, trials \in DecayTrials, stream \in DecayStreams :
          sim = [pc |-> "start",
                 underlying_returns |-> underlying_returns,
                 leverage |-> leverage,
                 window |-> window,
                 trials |-> trials,
                 stream |-> stream,
                 starts |-> << >>,
                 factors |-> << >>,
                 results |-> << >>,
                 ret |-> Absent,
                 exc |-> "none"]
    /\ AuditIdle
    /\ ExecIdle
    /\ RunsIdle
    /\ QuantIdle

\* lines 64-68
SimCheck ==
    /\ sim.pc = "start"
    /\ sim' = IF sim.window < 1
              THEN [sim EXCEPT !.pc = "raised",
                               !.exc = "ValueError: window must be >= 1"]
              ELSE IF Len(sim.underlying_returns) < sim.window
              THEN [sim EXCEPT !.pc = "raised",
                               !.exc = "ValueError: underlying_returns length must be at least window"]
              ELSE [sim EXCEPT !.pc = "sample"]
    /\ UNCHANGED <<auditVars, execVars, runVars, quantVars>>

\* lines 70-73
SimSample ==
    /\ sim.pc = "sample"
    /\ sim' = [sim EXCEPT !.pc = "loop",
                          !.starts = Integers(NewGenerator(sim.stream, live),
                                              StartsHigh(Len(sim.underlying_returns),
                                                         sim.window),
                                              sim.trials)]
    /\ UNCHANGED <<auditVars, execVars, runVars, quantVars>>

\* One trial (lines 75-84)
SimTrial ==
    /\ sim.pc = "loop"
    /\ Len(sim.results) < Len(sim.starts)
    /\ LET s == sim.starts[Len(sim.results) + 1]
           factors == ClippedFactors(sim.leverage,
                                     ReturnsSlice(sim.underlying_returns, s, sim.window))
       IN  sim' = [sim EXCEPT !.factors = Append(sim.factors, factors),
                              !.results = Append(sim.results, CumulativeReturn(factors))]
    /\ UNCHANGED <<auditVars, execVars, runVars, quantVars>>

\* lines 86-101
SimReturn ==
    /\ sim.pc = "loop"
    /\ Len(sim.results) = Len(sim.starts)
    /\ \E rounding \in MeanRoundings(sim.results) :
          sim' = [sim EXCEPT !.pc = "done",
                             !.ret = Some([DecayStats(sim.results, sim.leverage, sim.window,
                                                      sim.trials)
                                             EXCEPT !.mean = RoundedMean(sim.results, rounding)])]
    /\ UNCHANGED <<auditVars, execVars, runVars, quantVars>>

NextDecay == SimCheck \/ SimSample \/ SimTrial \/ SimReturn

SpecDecay == InitDecay /\ [][NextDecay]_vars

----------------------------------------------------------------------------
(* Properties of the audit ledger, checked under SpecAudit *)

\* The record a file holds, as load_decision_record reads it
FileRecord(path) == LoadDecisionRecord(files, path).ret[2]

\* C1: a record just returned by make_decision_record verifies, and so does
\* the record that load_decision_record returns after save_decision_record
\* wrote a record that verifies.
C1_SealedRecordVerifies ==
    /\ op = "make" => exc = "none" /\ IsDict(out) /\ VerifyAuditHash(out[2])
    /\ (op = "load" /\ exc = "none" /\ VerifyAuditHash(saved[how.path]))
           => IsDict(out) /\ VerifyAuditHash(out[2])

\* make_decision_record gave an identifier to a record that had none, the
\* sealed record was saved, and it has been loaded back
C1_Witness ==
    /\ op = "load"
    /\ exc = "none"
    /\ VerifyAuditHash(saved[how.path])
    /\ Get(saved[how.path], "decision_id") \in {PyStr(u) : u \in Uuids}
    /\ VerifyAuditHash(out[2])

\* C2: on a record that verifies, setting, adding or removing a field other
\* than the top-level audit_hash and signature, at top level or inside
\* quant_checks, without resealing, makes verify_audit_hash false; setting or
\* removing the top-level signature leaves it true.
C2_TamperingIsDetected ==
    op = "tamper" =>
        /\ VerifyAuditHash(pre)
        /\ rec = Mutate(how.mutation, pre)
        /\ rec # pre
        /\ IF how.mutation.kind \in {"set", "drop"} /\ how.mutation.key = "signature"
           THEN VerifyAuditHash(rec)
           ELSE ~VerifyAuditHash(rec)

\* A nested value of a sealed record was changed
C2_Witness ==
    /\ op = "tamper"
    /\ how.mutation.kind = "inset"
    /\ how.mutation.key = "ev_net"
    /\ Get(pre, "quant_checks") # Get(rec, "quant_checks")
    /\ ~VerifyAuditHash(rec)

\* C3: when run_sandbox_signal_example has run on a stored record, the file
\* holds the record with the execution attached, with the audit_hash the
\* record had when it was loaded, and verify_audit_hash on it is false.
C3_PostExecutionRecordFailsVerify ==
    (op = "sandbox" /\ out # PyNone) =>
        /\ exc = "none"
        /\ {"execution_plan", "execution_result", "post_execution_audit_hash"}
               \subseteq DOMAIN FileRecord(how.path)
        /\ "audit_hash" \in DOMAIN pre
        /\ FileRecord(how.path)["audit_hash"] = pre["audit_hash"]
        /\ ~VerifyAuditHash(FileRecord(how.path))

\* The record verified when run_sandbox_signal_example loaded it
C3_Witness ==
    /\ op = "sandbox"
    /\ out # PyNone
    /\ VerifyAuditHash(pre)
    /\ "execution_result" \in DOMAIN FileRecord(how.path)
    /\ ~VerifyAuditHash(FileRecord(how.path))

\* C4: sign_decision on a record with an audit_hash returns a record with the
\* same fields and values, audit_hash included, except for signature, which
\* is {signed_by, signature_hash, signed_at}; verify_audit_hash answers the
\* same on the argument and on the result, and the argument is not changed.
C4_SignKeepsRecord ==
    (op = "sign" /\ "audit_hash" \in DOMAIN pre) =>
        /\ exc = "none"
        /\ IsDict(out)
        /\ DOMAIN out[2] = DOMAIN pre \cup {"signature"}
        /\ \A k \in DOMAIN pre \ {"signature"} : out[2][k] = pre[k]
        /\ IsDict(out[2]["signature"])
        /\ DOMAIN out[2]["signature"][2] = {"signed_by", "signature_hash", "signed_at"}
        /\ out[2]["signature"][2]["signed_by"] = PyStr(how.signer)
        /\ VerifyAuditHash(out[2]) = VerifyAuditHash(pre)
        /\ arg = pre

\* A sealed record that verifies was signed
C4_Witness ==
    /\ op = "sign"
    /\ exc = "none"
    /\ VerifyAuditHash(pre)
    /\ "signature" \notin DOMAIN pre
    /\ "signature" \in DOMAIN out[2]

\* C5: sign_decision on a record with no audit_hash raises, returns nothing
\* and leaves its argument as it was, with no signature.
C5_SignNeedsSeal ==
    (op = "sign" /\ "audit_hash" \notin DOMAIN pre) =>
        /\ exc = "ValueError"
        /\ out = PyNone
        /\ arg = pre
        /\ rec = pre
        /\ "signature" \notin DOMAIN arg

\* sign_decision was called on an unsealed record
C5_Witness ==
    /\ op = "sign"
    /\ "audit_hash" \notin DOMAIN pre
    /\ exc = "ValueError"

\* C6: when make_decision_record has sealed a record that had a non-empty
\* decision_id and timestamp_utc, sealing the result again, with any
\* ensure_ids, uuid and clock, returns the result field for field.
C6_SealIsIdempotent ==
    (op = "make" /\ Truthy(Get(pre, "decision_id")) /\ Truthy(Get(pre, "timestamp_utc")))
        => \A ensure_ids \in BOOLEAN, uuid \in Uuids, now \in Clock :
              /\ MakeDecisionRecord(out[2], ensure_ids, uuid, now).ret = out
              /\ MakeDecisionRecord(pre, ensure_ids, uuid, now).ret = out

\* A record with its own identifier and time stamp was sealed, and sealed again
C6_Witness ==
    /\ op = "make"
    /\ steps = 2
    /\ Get(pre, "decision_id") = PyStr("id-0")
    /\ Truthy(Get(pre, "timestamp_utc"))
    /\ VerifyAuditHash(pre)
    /\ out = PyDict(pre)

\* C7: save_decision_record writes a record that has an audit_hash as it is,
\* does not change its argument, and load_decision_record then returns a
\* record equal to the one saved.
C7_SaveLoadRoundTrip ==
    /\ (op \in {"save", "sandbox"} /\ files[how.path] # NoFile
          /\ "audit_hash" \in DOMAIN saved[how.path])
           => /\ FileRecord(how.path) = saved[how.path]
              /\ arg = IF op = "save" THEN pre ELSE saved[how.path]
    /\ (op = "load" /\ exc = "none" /\ "audit_hash" \in DOMAIN saved[how.path])
           => out = PyDict(saved[how.path])

\* A sealed record with a given identifier and nested quant_checks was saved
\* and loaded back
C7_Witness ==
    /\ op = "load"
    /\ exc = "none"
    /\ VerifyAuditHash(saved[how.path])
    /\ Get(saved[how.path], "decision_id") = PyStr("id-0")
    /\ Get(saved[how.path], "quant_checks") = QcLarge
    /\ out = PyDict(saved[how.path])

\* The four keys of the result of replay_decision
ResultKeys == {"decision", "audit_ok", "validation_ok", "mismatches"}

\* C8: replay_decision returns a result {decision, audit_ok, validation_ok,
\* mismatches} for every path and every validator and raises nothing; when the
\* validator raises, validation_ok is false and mismatches is the one entry
\* _validator_error.
C8_ReplayAlwaysReturns ==
    op = "replay" =>
        /\ exc = "none"
        /\ IsDict(out)
        /\ DOMAIN out[2] = ResultKeys
        /\ how.validator.kind = "raises" =>
              /\ out[2]["validation_ok"] = PyBool(FALSE)
              /\ out[2]["mismatches"] = PyDict(ValidatorError)

\* The part of C8 the code keeps: on a path that holds a record
C8_ReplayOfStoredRecordReturns ==
    (op = "replay" /\ files[how.path] # NoFile) =>
        /\ exc = "none"
        /\ IsDict(out)
        /\ DOMAIN out[2] = ResultKeys
        /\ out[2]["decision"] = PyDict(FileRecord(how.path))
        /\ out[2]["audit_ok"] = PyBool(VerifyAuditHash(FileRecord(how.path)))
        /\ how.validator.kind = "raises" =>
              /\ out[2]["validation_ok"] = PyBool(FALSE)
              /\ out[2]["mismatches"] = PyDict(ValidatorError)

\* What the validator of a replay returned, and the stored quant_checks
Recomputed == CallValidator(how.validator, FileRecord(how.path))
StoredChecks == GetOr(FileRecord(how.path), "quant_checks", PyDict(EmptyDict))

\* The recomputed keys that are absent from the stored checks, or whose stored
\* value is further from the recomputed one than the tolerance, or, for values
\* that are not numbers, not equal to it
ExpectedMismatches(stored, recomputed) ==
    LET absent(k) == k \notin DOMAIN stored
        differs(k) ==
            IF IsNumber(stored[k]) /\ IsNumber(recomputed[k])
            THEN Abs(FloatOf(recomputed[k]).val - FloatOf(stored[k]).val)
                     > Max(AbsTolerance,
                           Max(FloatUnit, Abs(FloatOf(stored[k]).val)) \div RelToleranceInverse)
            ELSE ~PyEq(stored[k], recomputed[k])
        bad == {k \in DOMAIN recomputed : IF absent(k) THEN TRUE ELSE differs(k)}
    IN  [k \in bad |-> PyDict([expected |-> IF absent(k) THEN PyNone ELSE stored[k],
                               actual |-> recomputed[k]])]

\* What C9 says of a replay whose validator returned `recomputed`
ReplayReportsMismatches(stored, recomputed) ==
    /\ out[2]["mismatches"] =
          PyDict(ExpectedMismatches(IF IsDict(stored) THEN stored[2] ELSE EmptyDict,
                                    IF IsDict(recomputed) THEN recomputed[2] ELSE EmptyDict))
    /\ out[2]["validation_ok"] = PyBool(out[2]["mismatches"] = PyDict(EmptyDict))

\* With no validator validation_ok is None and mismatches is empty
ReplayWithoutValidator ==
    (op = "replay" /\ exc = "none" /\ how.validator.kind = "none") =>
        /\ out[2]["validation_ok"] = PyNone
        /\ out[2]["mismatches"] = PyDict(EmptyDict)

\* C9 as stated: whenever the validator returns normally, mismatches holds
\* exactly the recomputed keys absent from the stored quant_checks or stored
\* with a value beyond tolerance, and validation_ok says whether it is empty;
\* with no validator validation_ok is None and mismatches is empty.
C9_MismatchesAsStated ==
    /\ ReplayWithoutValidator
    /\ (op = "replay" /\ exc = "none" /\ how.validator.kind # "none" /\ ~Recomputed.raised)
           => ReplayReportsMismatches(StoredChecks, Recomputed.value)

\* C9 amended: the same, for a validator that returns a dict and a record
\* whose quant_checks is a dict or is absent.
C9_MismatchesOfDicts ==
    /\ ReplayWithoutValidator
    /\ (op = "replay" /\ exc = "none" /\ how.validator.kind # "none" /\ ~Recomputed.raised
          /\ IsDict(Recomputed.value) /\ IsDict(StoredChecks))
           => ReplayReportsMismatches(StoredChecks, Recomputed.value)

\* A replay of a record whose audit_hash does not verify found every
\* recomputed value within the tolerance of the stored one, none equal to it
C9_Witness ==
    /\ op = "replay"
    /\ exc = "none"
    /\ out[2]["audit_ok"] = PyBool(FALSE)
    /\ how.validator.kind = "returns"
    /\ StoredChecks = QcLarge
    /\ IsDict(Recomputed.value)
    /\ "ev_net" \in DOMAIN Recomputed.value[2]
    /\ Recomputed.value[2]["ev_net"] # QcLarge[2]["ev_net"]
    /\ out[2]["validation_ok"] = PyBool(TRUE)

----------------------------------------------------------------------------
(* Properties of execute_order, checked under SpecExec *)

\* The orders execute_order has reported so far
Reported == 1..Len(ex.fills)

\* order.get("type", "MARKET").upper() == "MARKET"
IsMarketType(order) == Upper(OrElse(order.type, "MARKET")) = "MARKET"

\* The snapshots that differ from the call's at most in the ADV of the ticker
SameButAdv(ticker) ==
    { s \in ModelSnapshots :
        MarketInfo(s, ticker).price = MarketInfo(call.market_snapshot, ticker).price }

\* The result of a MARKET order: all of qty filled in one fill at one price,
\* and the result the order gets, from the same generator state, whatever the ADV
FullyFilledWhateverAdv(order, r) ==
    /\ r.requested_qty = order.qty
    /\ r.filled_qty = order.qty
    /\ r.status = "filled"
    /\ r.avg_fill_price # Absent
    /\ Len(r.fills) = 1
    /\ r.fills[1].filled = order.qty
    /\ r.fills[1].price = r.avg_fill_price
    /\ \E jitter \in JitterValues :
          \A s \in SameButAdv(order.ticker) :
              ExecuteOneOrder(call.plan, s, order, 0, <<jitter>>).result = r

IsLimitType(order) == Upper(OrElse(order.type, "MARKET")) = "LIMIT"

\* order.get("algo", "").upper() == "TWAP"
HasTwapAlgo(order) == Upper(OrElse(order.algo, "")) = "TWAP"

\* The marketable test of a limit order against the market price of the call
Marketable(order) ==
    IF Upper(order.side) = "BUY"
    THEN order.limit[1] >= MarketPrice(call.market_snapshot, order)
    ELSE order.limit[1] <= MarketPrice(call.market_snapshot, order)

\* The result of a limit order: all of qty at a price when marketable,
\* nothing, no price and no_fill when not
FillsIffMarketable(order, r) ==
    /\ r.requested_qty = order.qty
    /\ IF Marketable(order)
       THEN r.filled_qty = order.qty /\ r.status = "filled" /\ r.avg_fill_price # Absent
       ELSE r.filled_qty = 0 /\ r.status = "no_fill" /\ r.avg_fill_price = Absent
    /\ r.filled_qty \in {0, order.qty}

\* C11 as stated: every order of type LIMIT with qty > 0 and a limit price
\* fills iff its limit is marketable (BUY: limit >= market_price, SELL:
\* limit <= market_price), all of qty with status filled and a price, or else
\* nothing with no price and status no_fill.
C11_LimitTypeFillsIffMarketable ==
    \A i \in Reported :
        (/\ IsLimitType(call.plan.orders[i])
         /\ call.plan.orders[i].qty > 0
         /\ call.plan.orders[i].limit # Absent)
            => FillsIffMarketable(call.plan.orders[i], ex.fills[i])

\* C11 amended: the same for every order of type LIMIT whose algo is not TWAP.
C11_LimitOrderFillsIffMarketable ==
    \A i \in Reported :
        (/\ IsLimitType(call.plan.orders[i])
         /\ ~HasTwapAlgo(call.plan.orders[i])
         /\ call.plan.orders[i].qty > 0
         /\ call.plan.orders[i].limit # Absent)
            => FillsIffMarketable(call.plan.orders[i], ex.fills[i])

\* A BUY limit below the market was not filled and a BUY limit at the market
\* was, in one plan
C11_Witness ==
    /\ ex.pc = "done"
    /\ Len(ex.fills) = 2
    /\ \A i \in 1..2 : IsLimitType(call.plan.orders[i]) /\ ~HasTwapAlgo(call.plan.orders[i])
    /\ \A i \in 1..2 : Upper(call.plan.orders[i].side) = "BUY"
    /\ call.plan.orders[1].limit = Some(96)
    /\ call.plan.orders[2].limit = Some(100)
    /\ MarketPrice(call.market_snapshot, call.plan.orders[2]) = 100
    /\ ex.fills[1].status = "no_fill"
    /\ ex.fills[2].status = "filled"
    /\ ex.fills[2].filled_qty = 7

\* floor((adv_usd / 390 * slice_minutes * percent_of_adv) / price) for an
\* ALG/TWAP order of the call, with slice_minutes = duration_minutes / slices;
\* 0 without ADV, and for an order with no slices, which has no slice to cap
AllowedShares(order) ==
    LET adv_usd == AdvUsd(call.market_snapshot, order)
        price == MarketPrice(call.market_snapshot, order)
    IN  IF adv_usd <= 0 \/ OrderSlices(order) <= 0 THEN 0
        ELSE (adv_usd * OrderDuration(order) * OrderPercent(order, call.plan))
                 \div (390 * OrderSlices(order) * price * 100)

\* C12: an ALG/TWAP order with qty > 0 and slices > 0 whose slice capacity c
\* is at least 1 with slices * c < qty fills slices * c units, more than none
\* and fewer than requested, and its status is partial.
C12_CappedTwapIsPartial ==
    \A i \in Reported :
        LET order == call.plan.orders[i]
            r == ex.fills[i]
        IN  IF IsAlgOrder(order) /\ order.qty > 0 /\ OrderSlices(order) > 0
            THEN (AllowedShares(order) >= 1 /\ OrderSlices(order) * AllowedShares(order) < order.qty)
                    => /\ r.filled_qty = OrderSlices(order) * AllowedShares(order)
                       /\ 0 < r.filled_qty
                       /\ r.filled_qty < r.requested_qty
                       /\ r.requested_qty = order.qty
                       /\ r.status = "partial"
            ELSE TRUE

\* A TWAP order of 7 in 2 slices, each capped at 2 shares, was reported with 4 filled
C12_Witness ==
    /\ Len(ex.fills) >= 1
    /\ IsAlgOrder(call.plan.orders[1])
    /\ call.plan.orders[1].qty = 7
    /\ OrderSlices(call.plan.orders[1]) = 2
    /\ AllowedShares(call.plan.orders[1]) = 2
    /\ ex.fills[1].filled_qty = 4
    /\ ex.fills[1].status = "partial"

\* C13: for an ALG/TWAP order with qty > 0 the status is filled iff
\* filled_qty >= requested_qty, partial iff 0 < filled_qty < requested_qty,
\* no_fill iff filled_qty = 0, and nothing else; avg_fill_price is non-null
\* iff filled_qty > 0.
C13_TwapStatusFollowsFilled ==
    \A i \in Reported :
        LET order == call.plan.orders[i]
            r == ex.fills[i]
        IN  (IsAlgOrder(order) /\ order.qty > 0) =>
                /\ r.status \in {"filled", "partial", "no_fill"}
                /\ r.status = "filled" <=> r.filled_qty >= r.requested_qty
                /\ r.status = "partial" <=> (0 < r.filled_qty /\ r.filled_qty < r.requested_qty)
                /\ r.status = "no_fill" <=> r.filled_qty = 0
                /\ r.avg_fill_price # Absent <=> r.filled_qty > 0

\* A plan of two TWAP orders of 7: the first filled, the second, with no
\* slices, not filled at all
C13_Witness ==
    /\ ex.pc = "done"
    /\ Len(ex.fills) = 2
    /\ \A i \in 1..2 : IsAlgOrder(call.plan.orders[i]) /\ call.plan.orders[i].qty = 7
    /\ ex.fills[1].status = "filled"
    /\ ex.fills[1].filled_qty = 7
    /\ ex.fills[2].status = "no_fill"
    /\ ex.fills[2].avg_fill_price = Absent

\* C14: every slice of every ALG/TWAP order fills at most max(1,
\* allowed_shares) units, allowed_shares being the participation cap; with a
\* cap of zero a slice fills at most 1 unit.
C14_SliceWithinCap ==
    \A i \in Reported :
        IsAlgOrder(call.plan.orders[i]) =>
            \A k \in 1..Len(ex.fills[i].fills) :
                ex.fills[i].fills[k].filled <= Max(1, AllowedShares(call.plan.orders[i]))

\* The part of C14 the code keeps: a slice under a cap of at least 1 fills
\* no more than the cap
C14_SliceWithinPositiveCap ==
    \A i \in Reported :
        (IsAlgOrder(call.plan.orders[i]) /\ AllowedShares(call.plan.orders[i]) >= 1) =>
            \A k \in 1..Len(ex.fills[i].fills) :
                ex.fills[i].fills[k].filled <= AllowedShares(call.plan.orders[i])

\* An order with a non-positive qty, or a LIMIT order with no limit price
IsMalformed(order) ==
    \/ order.qty <= 0
    \/ IsLimitType(order) /\ order.limit = Absent

\* C15: in sandbox mode execute_order raises nothing; an order of any type
\* with a non-positive qty or a missing limit price is reported with
\* filled_qty = 0 and status invalid_order or no_fill; and the report has one
\* entry per order of the plan, in plan order.
C15_MalformedOrdersAreReported ==
    /\ ex.pc # "type_error"
    /\ \A i \in Reported :
          /\ ex.fills[i].ticker = call.plan.orders[i].ticker
          /\ ex.fills[i].requested_qty = call.plan.orders[i].qty
          /\ IsMalformed(call.plan.orders[i]) =>
                /\ ex.fills[i].filled_qty = 0
                /\ ex.fills[i].status \in {"invalid_order", "no_fill"}
    /\ ex.pc = "done" => Len(ex.fills) = Len(call.plan.orders)

\* The part of C15 the code keeps: MARKET and LIMIT orders that are malformed
\* are reported invalid_order with nothing filled, a malformed ALG/TWAP order
\* is reported with nothing filled, and a call that returns reports every order
C15_MalformedOrdersFillNothing ==
    /\ \A i \in Reported :
          /\ ex.fills[i].ticker = call.plan.orders[i].ticker
          /\ ex.fills[i].requested_qty = call.plan.orders[i].qty
          /\ IsMalformed(call.plan.orders[i]) =>
                /\ ex.fills[i].filled_qty = 0
                /\ ~IsAlgOrder(call.plan.orders[i]) => ex.fills[i].status = "invalid_order"
    /\ ex.pc = "done" => Len(ex.fills) = Len(call.plan.orders)

\* The sum of f(order result) over the first n reported orders
RECURSIVE SumReported(_, _)
SumReported(field, n) ==
    IF n = 0 THEN 0 ELSE ex.fills[n][field] + SumReported(field, n - 1)

\* C16: for plans with qty >= 0, total_requested is the sum of the orders'
\* requested_qty, total_filled the sum of their filled_qty, every order has
\* 0 <= filled_qty <= requested_qty, and total_filled <= total_requested.
C16_MetricsAreSums ==
    (\A i \in 1..Len(call.plan.orders) : call.plan.orders[i].qty >= 0) =>
        /\ ex.metrics.total_requested = SumReported("requested_qty", Len(ex.fills))
        /\ ex.metrics.total_filled = SumReported("filled_qty", Len(ex.fills))
        /\ \A i \in Reported :
              /\ ex.fills[i].requested_qty = call.plan.orders[i].qty
              /\ 0 <= ex.fills[i].filled_qty
              /\ ex.fills[i].filled_qty <= ex.fills[i].requested_qty
        /\ ex.metrics.total_filled <= ex.metrics.total_requested

\* execute_order returned the metrics of a plan of a partly filled TWAP order
\* and a limit order that was not filled
C16_Witness ==
    /\ ex.pc = "done"
    /\ Len(ex.fills) = 2
    /\ ex.fills[1].status = "partial"
    /\ ex.fills[2].status = "no_fill"
    /\ ex.fills[2].requested_qty = 7
    /\ ex.metrics.total_requested = 14
    /\ ex.metrics.total_filled = ex.fills[1].filled_qty
    /\ ex.metrics.total_filled \in 1..6

----------------------------------------------------------------------------
(* Properties of the seeded functions, checked under SpecRuns *)

\* Two finished calls are calls of one function with identical arguments
SameCall(i, j) ==
    IF runs[i].fn = runs[j].fn THEN runs[i].args = runs[j].args ELSE FALSE

\* C17: two calls of simulate_lef_decay with identical (returns, leverage,
\* window, trials, seed) return identical statistics, and two calls of
\* execute_order with identical (plan, market_snapshot, seed) return identical
\* fill reports, whatever calls were made before either of them.
C17_SeededCallsAreDeterministic ==
    \A i \in 1..Len(runs), j \in 1..Len(runs) :
        SameCall(i, j) => /\ runs[i].ret = runs[j].ret
                          /\ runs[i].exc = runs[j].exc

\* A call is repeated after a call that left its generator part way through
\* its stream, and both calls return
C17_Witness ==
    \E i \in 1..Len(runs), j \in 1..Len(runs) :
        /\ i < j
        /\ SameCall(i, j)
        /\ runs[i].exc = "none"
        /\ runs[j].after # 0

----------------------------------------------------------------------------
(* Properties of ev_calc.py, checked under SpecEv *)

\* C18: compute_ev sets viability_pass true iff ev_net > safety_margin and
\* p_confidence >= 0.70, p_confidence being 1.0 when the signal has none: an
\* ev_net equal to the margin fails, a p_confidence of 0.70 passes, and a
\* p_confidence below 0.70 fails whatever ev_net is.
C18_ViabilityGate ==
    quant.fn = "compute_ev" =>
        LET conf == IF quant.signal.p_confidence = Absent THEN ProbUnit
                    ELSE quant.signal.p_confidence[1]
        IN  /\ quant.ret.viability_pass
                  <=> (quant.ret.ev_net > quant.safety_margin /\ conf >= 70)
            /\ quant.ret.ev_net = quant.safety_margin => ~quant.ret.viability_pass
            /\ conf < 70 => ~quant.ret.viability_pass
            /\ (conf = 70 /\ quant.ret.ev_net > quant.safety_margin)
                  => quant.ret.viability_pass

\* A call whose ev_net is exactly the safety margin, with the confidence the
\* gate lets through
C18_Witness ==
    /\ quant.fn = "compute_ev"
    /\ quant.ret.ev_net = quant.safety_margin
    /\ quant.ret.ev_net > 0
    /\ quant.signal.p_confidence = Some(70)
    /\ ~quant.ret.viability_pass

\* A scenario delta of the signal of the call, 0 when it is missing
CalledDelta(key) ==
    IF quant.signal.expected_delta = Absent THEN 0
    ELSE IF quant.signal.expected_delta[1][key] = Absent THEN 0
    ELSE quant.signal.expected_delta[1][key][1]

\* The decay mean the call was given, 0 when it was given none
CalledMean ==
    IF quant.decay_stats = Absent THEN 0
    ELSE IF quant.decay_stats[1].mean = Absent THEN 0
    ELSE quant.decay_stats[1].mean[1]

\* The signal of the call with another neutral delta
WithNeutral(n) ==
    [quant.signal EXCEPT !.expected_delta =
        Some([quant.signal.expected_delta[1] EXCEPT !.neutral = n])]

\* C19: compute_ev returns ev_net = p_success*fav + (1-p_success)*unfav
\* - letf_decay - trading_costs - slippage with letf_decay = max(0, -mean), 0
\* without decay statistics; letf_decay is never negative, a positive decay
\* mean leaves ev_net where it is without decay statistics, and the result is
\* the same whatever expected_delta.neutral is.
C19_EvNetFormula ==
    quant.fn = "compute_ev" =>
        LET p == IF quant.signal.p_success = Absent THEN 0 ELSE quant.signal.p_success[1]
            drag == IF CalledMean < 0 THEN -CalledMean ELSE 0
        IN  /\ quant.ret.letf_decay = drag
            /\ quant.ret.letf_decay >= 0
            /\ quant.ret.ev_net
                  = p * CalledDelta("fav") + (100 - p) * CalledDelta("unfav")
                      - quant.ret.letf_decay - quant.trading_costs - quant.slippage
            /\ CalledMean > 0
                  => quant.ret.ev_net
                       = ComputeEv(quant.signal, Absent, quant.trading_costs,
                                   quant.slippage, quant.safety_margin).ev_net
            /\ quant.signal.expected_delta # Absent
                  => \A n \in {Absent, Some(-300), Some(0), Some(300)} :
                        ComputeEv(WithNeutral(n), quant.decay_stats, quant.trading_costs,
                                  quant.slippage, quant.safety_margin) = quant.ret

\* A call with a neutral delta and decay statistics whose mean is positive
C19_Witness ==
    /\ quant.fn = "compute_ev"
    /\ quant.signal.p_success = Some(70)
    /\ quant.signal.expected_delta # Absent
    /\ CalledDelta("neutral") = 300
    /\ CalledDelta("unfav") < 0
    /\ CalledMean > 0
    /\ quant.ret.letf_decay = 0
    /\ quant.ret.ev_net > 0

\* compute_t_max returned a whole number of days from 1 to 90
ReturnedDays(r) == IF r.exc = "none" THEN r.ret[1] \in 1..90 ELSE FALSE

\* The days compute_t_max gives a finite leverage (in tenths) and a finite
\* volatility (in hundredths), 0 when it raises
DaysAt(l, v) ==
    LET r == ComputeTMax(Finite(l), Finite(v))
    IN  IF r.exc = "none" THEN r.ret[1] ELSE 0

\* C20: compute_t_max returns an integer in [1, 90] for every leverage and
\* every volatility, a non-positive volatility being treated as 0.20;
\* compute_t_max(3.0, 0.20) = 5, compute_t_max(2.0, 0.20) = 10,
\* compute_t_max(1.0, 0.20) = 30; and for a fixed leverage the result never
\* increases when the volatility increases.
C20_TMaxForEveryInput ==
    quant.fn = "compute_t_max" =>
        /\ ReturnedDays(quant)
        /\ (quant.est_vol_annual.kind = "finite" /\ quant.est_vol_annual.v <= 0)
              => quant.ret = ComputeTMax(quant.leverage, Finite(20)).ret
        /\ DaysAt(30, 20) = 5
        /\ DaysAt(20, 20) = 10
        /\ DaysAt(10, 20) = 30
        /\ (quant.leverage.kind = "finite" /\ quant.est_vol_annual.kind = "finite")
              => \A w \in (-2)..120 :
                    w >= quant.est_vol_annual.v
                        => DaysAt(quant.leverage.v, w) <= quant.ret[1]

\* What holds of compute_t_max: given a volatility that is a number, and not
\* one so small that 0.20 over it is beyond the floats, it returns an integer
\* in [1, 90], a non-positive volatility being treated as 0.20, with the three
\* values above; and over the positive volatilities the result never
\* increases when the volatility increases.
C20_TMaxOfUsableVolatility ==
    (quant.fn = "compute_t_max" /\ quant.est_vol_annual.kind \in {"finite", "inf"}) =>
        /\ ReturnedDays(quant)
        /\ (quant.est_vol_annual.kind = "finite" /\ quant.est_vol_annual.v <= 0)
              => quant.ret = ComputeTMax(quant.leverage, Finite(20)).ret
        /\ DaysAt(30, 20) = 5
        /\ DaysAt(20, 20) = 10
        /\ DaysAt(10, 20) = 30
        /\ (quant.leverage.kind = "finite" /\ quant.est_vol_annual.kind = "finite"
                /\ quant.est_vol_annual.v > 0)
              => \A w \in 1..120 :
                    w >= quant.est_vol_annual.v
                        => DaysAt(quant.leverage.v, w) <= quant.ret[1]

----------------------------------------------------------------------------
(* Properties of simulate_lef_decay, checked under SpecDecay *)

\* The call has ended
SimEnded == sim.pc \in {"raised", "done"}

\* C21: simulate_lef_decay with trials > 0 raises and returns no statistics
\* iff window < 1 or len(returns) < window; for every other input it returns
\* statistics, and every sampled start index s satisfies
\* 0 <= s <= len(returns) - window, so that each trial reads exactly `window`
\* returns.
C21_ErrorsAndStartIndices ==
    /\ SimEnded =>
          /\ (sim.pc = "raised")
                <=> (sim.window < 1 \/ Len(sim.underlying_returns) < sim.window)
          /\ sim.pc = "raised" => (sim.ret = Absent /\ sim.exc # "none")
          /\ sim.pc = "done" => (sim.ret # Absent /\ sim.exc = "none")
          /\ (sim.window < 1 /\ sim.pc = "raised")
                => sim.exc = "ValueError: window must be >= 1"
    /\ \A i \in 1..Len(sim.starts) :
          /\ 0 <= sim.starts[i]
          /\ sim.starts[i] <= Len(sim.underlying_returns) - sim.window
    /\ \A i \in 1..Len(sim.factors) : Len(sim.factors[i]) = sim.window

\* A call that returned statistics after a trial that started at the last
\* index a window fits at
C21_Witness ==
    /\ sim.pc = "done"
    /\ sim.window = 1
    /\ Len(sim.underlying_returns) = 2
    /\ \E i \in 1..Len(sim.starts) : sim.starts[i] = 1
    /\ \E i \in 1..Len(sim.starts) : sim.starts[i] = 0

\* The statistics the call returned
Stats == sim.ret[1]

\* The smallest and the largest simulated T-day return
MinResult == CHOOSE x \in {sim.results[i] : i \in 1..Len(sim.results)} :
                \A i \in 1..Len(sim.results) : x <= sim.results[i]
MaxResult == CHOOSE x \in {sim.results[i] : i \in 1..Len(sim.results)} :
                \A i \in 1..Len(sim.results) : x >= sim.results[i]

\* worst <= p10 <= p25 <= median <= p75 <= p90 <= best, the percentiles being
\* in hundredths, with worst and best the minimum and maximum of the results
PercentilesOrdered ==
    /\ Stats.worst = <<MinResult, 1>>
    /\ Stats.best = <<MaxResult, 1>>
    /\ Stats.worst[1] * 100 <= Stats.p10[1]
    /\ Stats.p10[1] <= Stats.p25[1]
    /\ Stats.p25[1] <= Stats.median[1]
    /\ Stats.median[1] <= Stats.p75[1]
    /\ Stats.p75[1] <= Stats.p90[1]
    /\ Stats.p90[1] <= Stats.best[1] * 100

\* worst <= mean <= best of the floats returned: a mean whose exact value is
\* worst or best must not have been rounded beyond it
MeanWithinAsReturned ==
    /\ Stats.worst[1] * Stats.mean[2] <= Stats.mean[1]
    /\ Stats.worst[1] * Stats.mean[2] = Stats.mean[1] => Stats.mean[3] >= 0
    /\ Stats.mean[1] <= Stats.best[1] * Stats.mean[2]
    /\ Stats.mean[1] = Stats.best[1] * Stats.mean[2] => Stats.mean[3] <= 0

AllZeroReturns == \A i \in 1..Len(sim.underlying_returns) : sim.underlying_returns[i] = 0

\* C23: for every leverage, window, trials and seed, if every entry of the
\* return series is 0 then every simulated T-day leveraged return is 0, and
\* mean, median, worst and best are all 0.
C23_ZeroReturnsGiveZero ==
    AllZeroReturns =>
        /\ \A i \in 1..Len(sim.results) : sim.results[i] = 0
        /\ sim.pc = "done" =>
              /\ sim.ret[1].mean[1] = 0
              /\ sim.ret[1].mean[3] = 0
              /\ sim.ret[1].median[1] = 0
              /\ sim.ret[1].worst[1] = 0
              /\ sim.ret[1].best[1] = 0

\* Three trials of three days at 3x over a series of zeros
C23_Witness ==
    /\ sim.pc = "done"
    /\ sim.underlying_returns = <<0, 0, 0>>
    /\ sim.window = 3
    /\ sim.leverage = 3
    /\ Len(sim.results) = 3

\* C25: every daily factor after clipping is at least -0.999 and is never
\* zero, so that no single day drives the compounded product to zero.
C25_FactorsClippedNeverZero ==
    \A i \in 1..Len(sim.factors) : \A k \in 1..Len(sim.factors[i]) :
        /\ sim.factors[i][k] >= -999
        /\ sim.factors[i][k] # 0

\* What holds of the clip: every daily factor is at least -0.999, and a trial
\* with a factor of zero has a T-day return of -1
C25_FactorsAtLeastFloor ==
    \A i \in 1..Len(sim.factors) :
        /\ \A k \in 1..Len(sim.factors[i]) : sim.factors[i][k] >= -999
        /\ (\E k \in 1..Len(sim.factors[i]) : sim.factors[i][k] = 0)
              => sim.results[i] = -Pow(MilliUnit, sim.window)

----------------------------------------------------------------------------
(* Further properties of execute_order, checked under SpecExec *)

\* The sum of the 'filled' values of slice records
RECURSIVE SumSliceFills(_)
SumSliceFills(fills) ==
    IF fills = << >> THEN 0 ELSE Head(fills).filled + SumSliceFills(Tail(fills))

\* An ALG/TWAP order with qty > 0 and slices > 0 whose slice capacity is at
\* least the size of a slice
UncappedTwap(order) ==
    IF IsAlgOrder(order) /\ order.qty > 0 /\ OrderSlices(order) > 0
    THEN AllowedShares(order) >= (order.qty + OrderSlices(order) - 1) \div OrderSlices(order)
    ELSE FALSE

\* C24 as stated: an ALG/TWAP order with qty > 0 and slices > 0 whose
\* participation capacity is not binding is executed as exactly `slices`
\* child fills of equal size whose sizes sum to qty.
C24_TwapSplitsEqually ==
    \A i \in Reported :
        LET order == call.plan.orders[i]
            fills == ex.fills[i].fills
        IN  UncappedTwap(order) =>
                /\ Len(fills) = OrderSlices(order)
                /\ \A k \in 1..Len(fills) : fills[k].filled = fills[1].filled
                /\ SumSliceFills(fills) = order.qty

\* C24: an ALG/TWAP order with qty > 0 and slices > 0 whose participation
\* capacity is not binding is executed as at most `slices` child fills whose
\* sizes sum to qty: every fill but the last is of ceil(qty / slices) units
\* and the last takes what remains; when slices divides qty these are exactly
\* `slices` fills of equal size.
C24_TwapSplitsByCeiling ==
    \A i \in Reported :
        LET order == call.plan.orders[i]
            fills == ex.fills[i].fills
            size == (order.qty + OrderSlices(order) - 1) \div OrderSlices(order)
        IN  UncappedTwap(order) =>
                /\ Len(fills) = (order.qty + size - 1) \div size
                /\ Len(fills) <= OrderSlices(order)
                /\ \A k \in 1..(Len(fills) - 1) : fills[k].filled = size
                /\ fills[Len(fills)].filled = order.qty - size * (Len(fills) - 1)
                /\ SumSliceFills(fills) = order.qty
                /\ order.qty % OrderSlices(order) = 0
                      => /\ Len(fills) = OrderSlices(order)
                         /\ \A k \in 1..Len(fills) : fills[k].filled = size

\* Two uncapped TWAP orders in 2 slices: 7 filled as 4 and 3, 6 as 3 and 3
C24_Witness ==
    /\ Len(ex.fills) = 2
    /\ UncappedTwap(call.plan.orders[1])
    /\ UncappedTwap(call.plan.orders[2])
    /\ call.plan.orders[1].qty = 7
    /\ call.plan.orders[2].qty = 6
    /\ Len(ex.fills[1].fills) = 2
    /\ ex.fills[1].fills[1].filled = 4
    /\ ex.fills[1].fills[2].filled = 3
    /\ ex.fills[2].fills[1].filled = 3
    /\ ex.fills[2].fills[2].filled = 3

\* A LIMIT order that execute_order handed to _execute_order_limit and that
\* was filled
FilledLimitLeg(i) ==
    /\ ~IsAlgOrder(call.plan.orders[i])
    /\ IsLimitType(call.plan.orders[i])
    /\ ex.fills[i].status = "filled"

\* C27: a marketable LIMIT order is filled at its limit price or better: a
\* filled BUY at a price <= limit, a filled SELL at a price >= limit, for
\* every non-negative max_slippage_bps and every jitter.
C27_LimitFillsAtLimitOrBetter ==
    \A i \in Reported :
        FilledLimitLeg(i) =>
            LET order == call.plan.orders[i]
                price == ex.fills[i].avg_fill_price[1]
            IN  IF Upper(order.side) = "BUY"
                THEN price <= order.limit[1] * PriceUnit
                ELSE price >= order.limit[1] * PriceUnit

\* What the code does: a filled LIMIT order is priced at its limit moved by
\* the slippage to the worse side, above the limit for a BUY and below it for
\* a SELL, and at the limit itself only when max_slippage_bps is 0.
C27_LimitFillsAtLimitOrWorse ==
    \A i \in Reported :
        FilledLimitLeg(i) =>
            LET order == call.plan.orders[i]
                price == ex.fills[i].avg_fill_price[1]
                bps == PlanSlippageBps(call.plan)
            IN  IF Upper(order.side) = "BUY"
                THEN /\ price >= order.limit[1] * PriceUnit
                     /\ price = order.limit[1] * PriceUnit <=> bps = 0
                ELSE /\ price <= order.limit[1] * PriceUnit
                     /\ price = order.limit[1] * PriceUnit <=> bps = 0

----------------------------------------------------------------------------
(* Further properties of the seeded functions, checked under SpecRuns *)

\* The finished calls of execute_order
ExecuteRuns == {i \in 1..Len(runs) : runs[i].fn = "execute_order"}

\* The fills and slices of call i that have a price: <<order, record>> indices
PricedFills(i) ==
    {ok \in (1..Len(runs[i].ret[1].fills)) \X (1..(DefaultSlices + 1)) :
        IF ok[2] <= Len(runs[i].ret[1].fills[ok[1]].fills)
        THEN runs[i].ret[1].fills[ok[1]].fills[ok[2]].price # Absent
        ELSE FALSE}

\* The fill or slice ok of call i
FillAt(i, ok) == runs[i].ret[1].fills[ok[1]].fills[ok[2]]

\* The priced fills and slices of call i that come before ok in its report
EarlierFills(i, ok) ==
    Cardinality({e \in PricedFills(i) :
                    e[1] < ok[1] \/ (e[1] = ok[1] /\ e[2] < ok[2])})

\* What the price of the fill or slice ok of call i is computed from, the seed
\* apart: the reference price (the limit of a LIMIT leg, the market price
\* otherwise), the side and the slippage parameter
PriceInputs(i, ok) ==
    LET plan == runs[i].args[1]
        order == plan.orders[ok[1]]
    IN  <<IF IsAlgOrder(order) THEN MarketPrice(runs[i].args[2], order)
          ELSE IF IsLimitType(order) THEN order.limit[1]
          ELSE MarketPrice(runs[i].args[2], order),
          Upper(order.side),
          PlanSlippageBps(plan)>>

\* Calls a and b were given the same seed
SameSeed(a, b) == SeedOrZero(runs[a].args[3]) = SeedOrZero(runs[b].args[3])

\* C26 as stated: the fill price of a filled order or slice is determined by
\* the seed, its reference price, its side and the slippage parameter alone,
\* whatever orders precede it in the plan and however many fills they
\* produced.
C26_FillPriceBySeedAlone ==
    \A a \in ExecuteRuns, b \in ExecuteRuns :
        SameSeed(a, b) =>
            \A x \in PricedFills(a), y \in PricedFills(b) :
                PriceInputs(a, x) = PriceInputs(b, y)
                    => FillAt(a, x).price = FillAt(b, y).price

\* C26: the fill price of a filled order or slice is determined by the seed,
\* its reference price, its side, the slippage parameter and the number of
\* priced fills and slices that come before it in its plan: two plans executed
\* with the same seed give the same price to fills that agree in these.
C26_FillPriceBySeedAndPosition ==
    \A a \in ExecuteRuns, b \in ExecuteRuns :
        SameSeed(a, b) =>
            \A x \in PricedFills(a), y \in PricedFills(b) :
                (PriceInputs(a, x) = PriceInputs(b, y)
                    /\ EarlierFills(a, x) = EarlierFills(b, y))
                    => FillAt(a, x).price = FillAt(b, y).price

\* A TWAP order and then a MARKET order, same seed, side and price: the
\* MARKET fill has the price of the first slice and not that of the second
C26_Witness ==
    /\ Len(runs) = 2
    /\ ExecuteRuns = {1, 2}
    /\ SameSeed(1, 2)
    /\ PricedFills(1) = {<<1, 1>>, <<1, 2>>}
    /\ PricedFills(2) = {<<1, 1>>}
    /\ PriceInputs(1, <<1, 2>>) = PriceInputs(2, <<1, 1>>)
    /\ FillAt(1, <<1, 1>>).price = FillAt(2, <<1, 1>>).price
    /\ FillAt(1, <<1, 2>>).price # FillAt(2, <<1, 1>>).price

-----------------------------------------------------------------------------
\* The slice loop of _simulate_twap_fill, checked under SpecExec

\* The loop of lines 87-123 is running: the order passed the test of line 81
InTwapLoop ==
    IF ex.pc = "twap"
    THEN CurrentOrder.qty > 0 /\ OrderSlices(CurrentOrder) > 0
    ELSE FALSE

SliceNumbersInOrder(fills) == \A k \in 1..Len(fills) : fills[k].slice = k

TwapLoopInvariant ==
    InTwapLoop =>
        /\ ex.tw.remaining + SumSliceFills(ex.tw.fills) = CurrentOrder.qty
        /\ ex.tw.remaining >= 0
        /\ SliceNumbersInOrder(ex.tw.fills)
        /\ Len(ex.tw.fills) <= OrderSlices(CurrentOrder)
        /\ ex.tw.i <= OrderSlices(CurrentOrder)
        /\ ex.tw.i = OrderSlices(CurrentOrder) => ex.tw.done

TwapFilledQtyIsSum ==
    \A i \in Reported :
        IsAlgOrder(call.plan.orders[i]) =>
            ex.fills[i].filled_qty = SumSliceFills(ex.fills[i].fills)

RemainingNeverIncreases ==
    (ex.pc = "twap" /\ ex'.pc = "twap") => ex'.tw.remaining <= ex.tw.remaining

\* C28: in every state of the TWAP slice loop remaining plus the sum of the
\* 'filled' values of the slices recorded so far equals qty and remaining is
\* not negative; remaining never increases; the slices are numbered 1, 2, ...,
\* k in order with k <= slices; the loop ends after at most `slices`
\* iterations; and the filled_qty of the order is the sum of its slice fills.
C28_TwapLoopAccounting ==
    /\ [](TwapLoopInvariant /\ TwapFilledQtyIsSum)
    /\ [][RemainingNeverIncreases]_vars

\* The second order of a plan is a TWAP whose last slice has run with part of
\* the quantity left over, after a first TWAP order was reported with fills
C28_Witness ==
    /\ InTwapLoop
    /\ ex.tw.done
    /\ ex.tw.i = OrderSlices(CurrentOrder)
    /\ Len(ex.tw.fills) >= 2
    /\ ex.tw.remaining > 0
    /\ \E i \in Reported :
          /\ IsAlgOrder(call.plan.orders[i])
          /\ Len(ex.fills[i].fills) >= 2
          /\ ex.fills[i].filled_qty > 0

-----------------------------------------------------------------------------
\* What the audit calls leave of the caller's record, checked under SpecAudit

ExecutionKeys == {"execution_plan", "execution_result", "post_execution_audit_hash"}

\* make_decision_record(rec) and save_decision_record(rec, path) return with
\* the dict they were given as it was
CallLeavesRecord == op \in {"make", "save"} => (exc = "none" /\ arg = pre)

\* The caller of save_decision_record holds the same record afterwards
SaveLeavesCallerRecord == op = "save" => rec = pre

\* cli.py 165-170: the record run_sandbox_signal_example passes through
\* make_decision_record and then to save_decision_record is the loaded record
\* with the three execution keys set and nothing else added or replaced
SandboxLeavesRecord ==
    (op = "sandbox" /\ exc = "none" /\ files[how.path] # NoFile) =>
        /\ DOMAIN arg = DOMAIN pre \cup ExecutionKeys
        /\ \A k \in DOMAIN pre \ ExecutionKeys : arg[k] = pre[k]

\* C29: make_decision_record and save_decision_record never modify the record
\* passed in: after either call the caller's record has the same fields and
\* values as before; it gains no decision_id, timestamp_utc or audit_hash, and
\* an audit_hash it has is not replaced.
C29_CallsLeaveRecordUnmodified ==
    /\ CallLeavesRecord
    /\ SaveLeavesCallerRecord
    /\ SandboxLeavesRecord

\* A record without decision_id, timestamp_utc and audit_hash was saved: the
\* file holds all three, the caller's record none of them
C29_Witness ==
    /\ op = "save"
    /\ {"decision_id", "timestamp_utc", "audit_hash"} \cap DOMAIN pre = {}
    /\ {"decision_id", "timestamp_utc", "audit_hash"} \subseteq DOMAIN FileRecord(how.path)
    /\ arg = pre
    /\ rec = pre

-----------------------------------------------------------------------------
\* The slice records of ALG/TWAP orders, checked under SpecExec

\* An ALG/TWAP order that enters the slice loop (line 81)
SlicedOrder(order) ==
    IF IsAlgOrder(order) THEN order.qty > 0 /\ OrderSlices(order) > 0 ELSE FALSE

EverySliceFilled(fills) ==
    \A k \in 1..Len(fills) :
        /\ fills[k].filled >= 1
        /\ fills[k].status = "filled"
        /\ fills[k].price # Absent

\* C30: for every ALG/TWAP order with qty > 0 and slices > 0, whatever the ADV,
\* price and participation rate, every recorded slice has filled >= 1 with
\* status filled and a price; no slice record with status not_filled is
\* produced and the status of the order is never no_fill.
C30_EverySliceFillsSomething ==
    /\ InTwapLoop => EverySliceFilled(ex.tw.fills)
    /\ \A i \in Reported :
          SlicedOrder(call.plan.orders[i]) =>
              /\ EverySliceFilled(ex.fills[i].fills)
              /\ Len(ex.fills[i].fills) >= 1
              /\ ex.fills[i].status \in {"filled", "partial"}

\* A TWAP order was reported although its slice capacity is zero
C30_Witness ==
    \E i \in Reported :
        /\ SlicedOrder(call.plan.orders[i])
        /\ AllowedShares(call.plan.orders[i]) = 0
        /\ Len(ex.fills[i].fills) >= 2
        /\ ex.fills[i].status = "filled"

=============================================================================
